---- MODULE Spec2Model ----
(***************************************************************************)
(* secure-bridge: hybrid encryption library (AES-256-GCM + RSA-OAEP) and   *)
(* the dual-column ingest/search service that consumes its envelopes.      *)
(*                                                                         *)
(* Representation.                                                         *)
(*   - A JavaScript string is a sequence of UTF-16 code units.             *)
(*   - A Buffer holding a key, an IV, a plaintext or a ciphertext is a     *)
(*     sequence of bytes 0..255.                                           *)
(*   - The output of a pseudo-random function (a GCM tag, an RSA-OAEP      *)
(*     ciphertext) is a record [len, src, delta]: the first len bytes of   *)
(*     the function's value at src, with the bytes at the positions named  *)
(*     in delta changed by the given non-zero amounts.  Two such strings   *)
(*     are equal exactly when the three fields are: the function is taken  *)
(*     to be collision free.                                               *)
(*   - A base64 text is a record [bytes, tail, junk]: the bytes it decodes *)
(*     to, whether the unused low bits of its last character are non-zero  *)
(*     and whether it holds a character outside the base64 alphabet        *)
(*     (Buffer.from(s, "base64") ignores those bits and skips such         *)
(*     characters).                                                        *)
(*   - crypto.randomBytes is taken never to return the same value twice;   *)
(*     its values are named by the order in which they are drawn.          *)
(*   - A thrown exception is a result record with ok = FALSE.              *)
(***************************************************************************)
EXTENDS Integers, Sequences, FiniteSets, TLC

\* ---------------------------------------------------------------- bounds
MaxCalls == 2        \* encryptRequest / encrypt calls followed in one run
MaxTamperPos == 2    \* leading positions of a pseudo-random string an attacker alters

\* ------------------------------------------------------ program constants
KEY_LENGTH == 32
IV_LENGTH == 12
AUTH_TAG_LENGTH == 16
KEY_SIZE == 2048
OAEP_HASH_LENGTH == 32

\* ------------------------------------------------------------- results
Return(v) == [ok |-> TRUE, value |-> v, error |-> ""]
Throw(e) == [ok |-> FALSE, value |-> <<>>, error |-> e]

\* ------------------------------------------------------- JavaScript strings
ReplacementChar == 65533

IsHigh(u) == u >= 55296 /\ u <= 56319
IsLow(u) == u >= 56320 /\ u <= 57343
IsCont(b) == b >= 128 /\ b <= 191

\* The UTF-8 bytes of one code point.
CodePointBytes(cp) ==
  IF cp < 128 THEN <<cp>>
  ELSE IF cp < 2048 THEN <<192 + (cp \div 64), 128 + (cp % 64)>>
  ELSE IF cp < 65536
    THEN <<224 + (cp \div 4096), 128 + ((cp \div 64) % 64), 128 + (cp % 64)>>
  ELSE <<240 + (cp \div 262144), 128 + ((cp \div 4096) % 64),
         128 + ((cp \div 64) % 64), 128 + (cp % 64)>>

\* Buffer.from(str, "utf8") / cipher.update(str, "utf8"): a surrogate pair is
\* one code point, a lone surrogate is written as U+FFFD.
\* A long string is encoded half by half, cut where no surrogate pair is split.
RECURSIVE utf8Encode(_)
utf8Encode(s) ==
  IF Len(s) > 2
    THEN LET half == Len(s) \div 2
             cut == IF IsHigh(s[half]) /\ IsLow(s[half + 1]) THEN half + 1 ELSE half
         IN utf8Encode(SubSeq(s, 1, cut)) \o utf8Encode(SubSeq(s, cut + 1, Len(s)))
  ELSE IF s = <<>> THEN <<>>
  ELSE IF IsHigh(s[1]) /\ Len(s) >= 2 /\ IsLow(s[2])
    THEN CodePointBytes(65536 + (s[1] - 55296) * 1024 + (s[2] - 56320))
           \o utf8Encode(SubSeq(s, 3, Len(s)))
  ELSE IF IsHigh(s[1]) \/ IsLow(s[1])
    THEN CodePointBytes(ReplacementChar) \o utf8Encode(Tail(s))
  ELSE CodePointBytes(s[1]) \o utf8Encode(Tail(s))

\* The code units of one decoded code point.
CodePointUnits(cp) ==
  IF cp < 65536 THEN <<cp>>
  ELSE <<55296 + ((cp - 65536) \div 1024), 56320 + ((cp - 65536) % 1024)>>

\* buf.toString("utf8"): an ill-formed byte decodes to U+FFFD.
\* A long buffer is decoded in two parts, cut before a byte near its middle
\* that is not a continuation byte (a character never extends across one).
RECURSIVE utf8Decode(_)
utf8Decode(b) ==
  IF Len(b) > 4 /\ \E k \in 1..4 : ~IsCont(b[Len(b) \div 2 + k - 1])
    THEN LET half == Len(b) \div 2
             cut == CHOOSE k \in half..(half + 3) :
                      /\ ~IsCont(b[k])
                      /\ \A l \in half..(k - 1) : IsCont(b[l])
         IN utf8Decode(SubSeq(b, 1, cut - 1)) \o utf8Decode(SubSeq(b, cut, Len(b)))
  ELSE IF b = <<>> THEN <<>>
  ELSE IF b[1] < 128 THEN <<b[1]>> \o utf8Decode(Tail(b))
  ELSE IF b[1] >= 194 /\ b[1] <= 223 /\ Len(b) >= 2 /\ IsCont(b[2])
    THEN <<(b[1] - 192) * 64 + (b[2] - 128)>> \o utf8Decode(SubSeq(b, 3, Len(b)))
  ELSE IF b[1] >= 224 /\ b[1] <= 239 /\ Len(b) >= 3 /\ IsCont(b[2]) /\ IsCont(b[3])
    THEN LET cp == (b[1] - 224) * 4096 + (b[2] - 128) * 64 + (b[3] - 128)
         IN (IF cp < 2048 \/ IsHigh(cp) \/ IsLow(cp) THEN <<ReplacementChar>> ELSE <<cp>>)
              \o utf8Decode(SubSeq(b, 4, Len(b)))
  ELSE IF b[1] >= 240 /\ b[1] <= 244 /\ Len(b) >= 4
          /\ IsCont(b[2]) /\ IsCont(b[3]) /\ IsCont(b[4])
    THEN LET cp == (b[1] - 240) * 262144 + (b[2] - 128) * 4096
                     + (b[3] - 128) * 64 + (b[4] - 128)
         IN (IF cp < 65536 \/ cp > 1114111 THEN <<ReplacementChar>> ELSE CodePointUnits(cp))
              \o utf8Decode(SubSeq(b, 5, Len(b)))
  ELSE <<ReplacementChar>> \o utf8Decode(Tail(b))

\* StringDecoder: the number of trailing bytes that begin a multi-byte
\* character and are held back until more bytes (or end()) arrive.
Need(b) == IF b >= 240 /\ b <= 244 THEN 4 ELSE IF b >= 224 /\ b <= 239 THEN 3
           ELSE IF b >= 194 /\ b <= 223 THEN 2 ELSE 1
HeldBack(b) ==
  LET n == Len(b)
      Starts(k) == /\ k <= n
                   /\ Need(b[n - k + 1]) > k
                   /\ \A i \in (n - k + 2)..n : IsCont(b[i])
  IN IF Starts(1) THEN 1 ELSE IF Starts(2) THEN 2 ELSE IF Starts(3) THEN 3 ELSE 0
\* Faulty variant: the output decoded as "latin1", one code unit per byte.
decoderWrite_latin1(b) == b
decoderWrite(b) == utf8Decode(SubSeq(b, 1, Len(b) - HeldBack(b)))
decoderEnd(b) == IF HeldBack(b) = 0 THEN <<>> ELSE <<ReplacementChar>>

\* --------------------------------------------------------------- base64
toBase64(buf) == [bytes |-> buf, tail |-> 0, junk |-> 0]
fromBase64(text) == text.bytes
EmptyText == toBase64(<<>>)

\* --------------------------------------------------------- crypto.randomBytes
\* The n-byte value numbered r.
randomBytes(n, r) == [i \in 1..n |-> IF i = n THEN r ELSE 0]

\* ---------------------------------------------------- pseudo-random strings
Digest(n, src) == [len |-> n, src |-> src, delta |-> {}]
Prefix(x, n) == [len |-> n, src |-> x.src, delta |-> {e \in x.delta : e[1] <= n}]

\* ------------------------------------------------------------ aes-256-gcm
\* node:crypto createCipheriv / createDecipheriv with "aes-256-gcm".  The
\* ciphertext is the plaintext combined bytewise with a key stream that is a
\* function of key, IV and position (counter mode), so it has the length of
\* the plaintext; the tag is a pseudo-random function of key, IV and
\* ciphertext.
RECURSIVE SumSeq(_)
SumSeq(s) == IF s = <<>> THEN 0 ELSE s[1] + SumSeq(Tail(s))
KeyStream(keyBuffer, ivBuffer, i) == (SumSeq(keyBuffer) + SumSeq(ivBuffer) + i) % 256
GcmEncrypt(keyBuffer, ivBuffer, data) ==
  [i \in 1..Len(data) |-> (data[i] + KeyStream(keyBuffer, ivBuffer, i)) % 256]
\* Faulty variant: the block counter does not advance while decrypting.
GcmDecrypt_fixedCounter(keyBuffer, ivBuffer, data) ==
  [i \in 1..Len(data) |-> (data[i] + 256 - KeyStream(keyBuffer, ivBuffer, 1)) % 256]
GcmDecrypt(keyBuffer, ivBuffer, data) ==
  [i \in 1..Len(data) |-> (data[i] + 256 - KeyStream(keyBuffer, ivBuffer, i)) % 256]
GcmTag(keyBuffer, ivBuffer, data) == Digest(AUTH_TAG_LENGTH, <<keyBuffer, ivBuffer, data>>)

\* decipher.setAuthTag accepts these tag lengths when createDecipheriv was
\* given no authTagLength; decipher.final compares as many bytes as it got.
ValidTagLengths == {4, 8, 12, 13, 14, 15, 16}
TagVerifies(keyBuffer, ivBuffer, data, authTagBuffer) ==
  authTagBuffer = Prefix(GcmTag(keyBuffer, ivBuffer, data), authTagBuffer.len)

\* --------------------------------------------------------------- rsa-oaep
\* PEM keys of the key pair numbered id.
PublicKey(id) == <<"PUBLIC KEY", id>>
PrivateKey(id) == <<"PRIVATE KEY", id>>
ModulusBytes == KEY_SIZE \div 8
\* crypto.publicEncrypt with RSA_PKCS1_OAEP_PADDING, oaepHash sha256; seed is
\* the random value OAEP draws.
publicEncrypt(publicKeyPEM, buffer, seed) ==
  IF Len(buffer) > ModulusBytes - 2 * OAEP_HASH_LENGTH - 2
    THEN Throw("data too large for key size")
    ELSE Return(Digest(ModulusBytes, <<publicKeyPEM[2], seed, buffer>>))
\* crypto.privateDecrypt: only an unaltered ciphertext made for this key pair
\* passes the OAEP check.
privateDecrypt(privateKeyPEM, buffer) ==
  IF buffer.len > ModulusBytes THEN Throw("data greater than mod len")
  ELSE IF /\ buffer.len = ModulusBytes
          /\ buffer.delta = {}
          /\ buffer.src[1] = privateKeyPEM[2]
    THEN Return(buffer.src[3])
    ELSE Throw("oaep decoding error")

\* ------------------------------------------------------------ AES256GCM
\* An optional string argument: given = FALSE is an omitted argument.
NoKey == [given |-> FALSE, text |-> EmptyText]
KeyArg(text) == [given |-> TRUE, text |-> text]
\* `key || ...`: undefined and "" are falsy.
Truthy(key) == key.given /\ key.text # EmptyText

\* r is the number of values randomBytes has returned so far.
\* Faulty variant: one key for every call.
generateKey_static(r) == toBase64(randomBytes(KEY_LENGTH, 0))
generateKey(r) == toBase64(randomBytes(KEY_LENGTH, r + 1))
\* Faulty variant: the IV is drawn at the length of a key.
generateIV_keyLength(r) == toBase64(randomBytes(KEY_LENGTH, r + 1))
\* Faulty variant: a constant IV.
generateIV_static(r) == toBase64(randomBytes(IV_LENGTH, 0))
generateIV(r) == toBase64(randomBytes(IV_LENGTH, r + 1))

\* Faulty variant: the key argument is ignored and a key is always generated.
AES256GCM_encrypt_ignoresKey(plaintext, key, r) ==
  LET aesKey == generateKey(r)
      keyBuffer == fromBase64(aesKey)
      iv == generateIV(r + 1)
      ivBuffer == fromBase64(iv)
      ciphertext == GcmEncrypt(keyBuffer, ivBuffer, utf8Encode(plaintext))
      authTag == GcmTag(keyBuffer, ivBuffer, ciphertext)
  IN [ret |-> Return([ciphertext |-> toBase64(ciphertext),
                      iv |-> iv,
                      authTag |-> toBase64(authTag),
                      key |-> aesKey]),
      drawn |-> r + 2]

\* AES256GCM.encrypt(plaintext, key?).  Returns the result and the number of
\* random values drawn so far.
AES256GCM_encrypt(plaintext, key, r) ==
  LET aesKey == IF Truthy(key) THEN key.text ELSE generateKey(r)
      r1 == IF Truthy(key) THEN r ELSE r + 1
      keyBuffer == fromBase64(aesKey)
      iv == generateIV(r1)
      ivBuffer == fromBase64(iv)
      ciphertext == GcmEncrypt(keyBuffer, ivBuffer, utf8Encode(plaintext))
      authTag == GcmTag(keyBuffer, ivBuffer, ciphertext)
  IN IF Len(keyBuffer) # KEY_LENGTH
       THEN [ret |-> Throw("Invalid key length"), drawn |-> r1 + 1]
       ELSE [ret |-> Return([ciphertext |-> toBase64(ciphertext),
                             iv |-> iv,
                             authTag |-> toBase64(authTag),
                             key |-> aesKey]),
             drawn |-> r1 + 1]

\* Faulty variant: decipher.final() is never called, so the tag is never checked.
AES256GCM_decrypt_noFinal(input) ==
  LET keyBuffer == fromBase64(input.key)
      ivBuffer == fromBase64(input.iv)
      authTagBuffer == fromBase64(input.authTag)
      data == fromBase64(input.ciphertext)
      plaintext == decoderWrite(GcmDecrypt(keyBuffer, ivBuffer, data))
  IN IF Len(keyBuffer) # KEY_LENGTH
       THEN [ret |-> Throw("Invalid key length"), produced |-> <<>>,
             reached |-> "createDecipheriv"]
     ELSE IF Len(ivBuffer) = 0
       THEN [ret |-> Throw("Invalid initialization vector"), produced |-> <<>>,
             reached |-> "createDecipheriv"]
     ELSE IF authTagBuffer.len \notin ValidTagLengths
       THEN [ret |-> Throw("Invalid authentication tag length"), produced |-> <<>>,
             reached |-> "setAuthTag"]
     ELSE [ret |-> Return(plaintext), produced |-> plaintext, reached |-> "return"]

\* Faulty variant: a cipher that takes a key of any length.
AES256GCM_decrypt_anyKeyLength(input) ==
  LET keyBuffer == fromBase64(input.key)
      ivBuffer == fromBase64(input.iv)
      authTagBuffer == fromBase64(input.authTag)
      data == fromBase64(input.ciphertext)
      bytes == GcmDecrypt(keyBuffer, ivBuffer, data)
      plaintext == decoderWrite(bytes)
  IN IF Len(ivBuffer) = 0
       THEN [ret |-> Throw("Invalid initialization vector"), produced |-> <<>>,
             reached |-> "createDecipheriv"]
     ELSE IF authTagBuffer.len \notin ValidTagLengths
       THEN [ret |-> Throw("Invalid authentication tag length"), produced |-> <<>>,
             reached |-> "setAuthTag"]
     ELSE IF ~TagVerifies(keyBuffer, ivBuffer, data, authTagBuffer)
       THEN [ret |-> Throw("Unsupported state or unable to authenticate data"),
             produced |-> plaintext, reached |-> "final"]
     ELSE [ret |-> Return(plaintext \o decoderEnd(bytes)),
           produced |-> plaintext, reached |-> "return"]

\* Faulty variant: the error thrown when the tag does not verify carries the text
\* decipher.update had produced.
AES256GCM_decrypt_leaky(input) ==
  LET keyBuffer == fromBase64(input.key)
      ivBuffer == fromBase64(input.iv)
      authTagBuffer == fromBase64(input.authTag)
      data == fromBase64(input.ciphertext)
      bytes == GcmDecrypt(keyBuffer, ivBuffer, data)
      plaintext == decoderWrite(bytes)
  IN IF Len(keyBuffer) # KEY_LENGTH
       THEN [ret |-> Throw("Invalid key length"), produced |-> <<>>,
             reached |-> "createDecipheriv"]
     ELSE IF Len(ivBuffer) = 0
       THEN [ret |-> Throw("Invalid initialization vector"), produced |-> <<>>,
             reached |-> "createDecipheriv"]
     ELSE IF authTagBuffer.len \notin ValidTagLengths
       THEN [ret |-> Throw("Invalid authentication tag length"), produced |-> <<>>,
             reached |-> "setAuthTag"]
     ELSE IF ~TagVerifies(keyBuffer, ivBuffer, data, authTagBuffer)
       THEN [ret |-> [ok |-> FALSE, value |-> plaintext,
                      error |-> "Unsupported state or unable to authenticate data"],
             produced |-> plaintext, reached |-> "final"]
     ELSE [ret |-> Return(plaintext \o decoderEnd(bytes)),
           produced |-> plaintext, reached |-> "return"]

\* AES256GCM.decrypt(input).  ret is what the call returns or throws;
\* produced is what decipher.update had returned when the call ended;
\* reached names the last statement that ran.
AES256GCM_decrypt(input) ==
  LET keyBuffer == fromBase64(input.key)
      ivBuffer == fromBase64(input.iv)
      authTagBuffer == fromBase64(input.authTag)
      data == fromBase64(input.ciphertext)
      bytes == GcmDecrypt(keyBuffer, ivBuffer, data)
      plaintext == decoderWrite(bytes)
  IN IF Len(keyBuffer) # KEY_LENGTH
       THEN [ret |-> Throw("Invalid key length"), produced |-> <<>>,
             reached |-> "createDecipheriv"]
     ELSE IF Len(ivBuffer) = 0
       THEN [ret |-> Throw("Invalid initialization vector"), produced |-> <<>>,
             reached |-> "createDecipheriv"]
     ELSE IF authTagBuffer.len \notin ValidTagLengths
       THEN [ret |-> Throw("Invalid authentication tag length"), produced |-> <<>>,
             reached |-> "setAuthTag"]
     ELSE IF ~TagVerifies(keyBuffer, ivBuffer, data, authTagBuffer)
       THEN [ret |-> Throw("Unsupported state or unable to authenticate data"),
             produced |-> plaintext, reached |-> "final"]
     ELSE [ret |-> Return(plaintext \o decoderEnd(bytes)),
           produced |-> plaintext, reached |-> "return"]

\* ------------------------------------------------------- RSAKeyPairManager
\* generateKeyPair(): the key pair numbered id.
generateKeyPair(id) == [publicKey |-> PublicKey(id), privateKey |-> PrivateKey(id)]

\* encryptWithPublicKey(data, publicKeyPEM); seed numbers OAEP's random value.
encryptWithPublicKey(data, publicKeyPEM, seed) ==
  LET buffer == fromBase64(data)
      encrypted == publicEncrypt(publicKeyPEM, buffer, seed)
  IN IF encrypted.ok THEN Return(toBase64(encrypted.value)) ELSE encrypted

\* Faulty variant: the private key of the key that sealed the data is used instead
\* of the key passed in.
decryptWithPrivateKey_anyKey(encryptedData, privateKeyPEM) ==
  LET buffer == fromBase64(encryptedData)
      decrypted == privateDecrypt(PrivateKey(buffer.src[1]), buffer)
  IN IF decrypted.ok THEN Return(toBase64(decrypted.value)) ELSE decrypted

\* Faulty variant: the last decrypted byte is left out of the returned string.
decryptWithPrivateKey_short(encryptedData, privateKeyPEM) ==
  LET buffer == fromBase64(encryptedData)
      decrypted == privateDecrypt(privateKeyPEM, buffer)
  IN IF decrypted.ok
       THEN Return(toBase64(SubSeq(decrypted.value, 1, Len(decrypted.value) - 1)))
       ELSE decrypted

\* decryptWithPrivateKey(encryptedData, privateKeyPEM)
decryptWithPrivateKey(encryptedData, privateKeyPEM) ==
  LET buffer == fromBase64(encryptedData)
      decrypted == privateDecrypt(privateKeyPEM, buffer)
  IN IF decrypted.ok THEN Return(toBase64(decrypted.value)) ELSE decrypted

\* ------------------------------------------------------------ SecureBridge
\* Faulty variant: the payload, not the AES key, is handed to the RSA wrap.
encryptRequest_wrapsPayload(payload, serverPublicKey, r) ==
  LET aesResult == AES256GCM_encrypt(payload, NoKey, r)
      encryptedAESKey ==
        encryptWithPublicKey(toBase64(utf8Encode(payload)), serverPublicKey,
                             aesResult.drawn + 1)
  IN IF ~aesResult.ret.ok
       THEN [ret |-> aesResult.ret, aesKey |-> EmptyText, drawn |-> aesResult.drawn]
     ELSE IF ~encryptedAESKey.ok
       THEN [ret |-> encryptedAESKey, aesKey |-> aesResult.ret.value.key,
             drawn |-> aesResult.drawn]
     ELSE [ret |-> Return([ciphertext |-> aesResult.ret.value.ciphertext,
                           encryptedAESKey |-> encryptedAESKey.value,
                           iv |-> aesResult.ret.value.iv,
                           authTag |-> aesResult.ret.value.authTag]),
           aesKey |-> aesResult.ret.value.key,
           drawn |-> aesResult.drawn + 1]

\* Faulty variant: the whole result of AES256GCM.encrypt, key included, is
\* spread into the envelope.
encryptRequest_spread(payload, serverPublicKey, r) ==
  LET aesResult == AES256GCM_encrypt(payload, NoKey, r)
      encryptedAESKey ==
        encryptWithPublicKey(aesResult.ret.value.key, serverPublicKey, aesResult.drawn + 1)
  IN IF ~aesResult.ret.ok
       THEN [ret |-> aesResult.ret, aesKey |-> EmptyText, drawn |-> aesResult.drawn]
     ELSE IF ~encryptedAESKey.ok
       THEN [ret |-> encryptedAESKey, aesKey |-> aesResult.ret.value.key,
             drawn |-> aesResult.drawn]
     ELSE [ret |-> Return([ciphertext |-> aesResult.ret.value.ciphertext,
                           encryptedAESKey |-> encryptedAESKey.value,
                           iv |-> aesResult.ret.value.iv,
                           authTag |-> aesResult.ret.value.authTag,
                           key |-> aesResult.ret.value.key]),
           aesKey |-> aesResult.ret.value.key,
           drawn |-> aesResult.drawn + 1]

\* encryptRequest(payload, serverPublicKey).  aesKey is the key of step 1,
\* kept beside the result to state the claims; drawn counts random values.
encryptRequest(payload, serverPublicKey, r) ==
  LET aesResult == AES256GCM_encrypt(payload, NoKey, r)
      encryptedAESKey ==
        encryptWithPublicKey(aesResult.ret.value.key, serverPublicKey, aesResult.drawn + 1)
  IN IF ~aesResult.ret.ok
       THEN [ret |-> aesResult.ret, aesKey |-> EmptyText, drawn |-> aesResult.drawn]
     ELSE IF ~encryptedAESKey.ok
       THEN [ret |-> encryptedAESKey, aesKey |-> aesResult.ret.value.key,
             drawn |-> aesResult.drawn]
     ELSE [ret |-> Return([ciphertext |-> aesResult.ret.value.ciphertext,
                           encryptedAESKey |-> encryptedAESKey.value,
                           iv |-> aesResult.ret.value.iv,
                           authTag |-> aesResult.ret.value.authTag]),
           aesKey |-> aesResult.ret.value.key,
           drawn |-> aesResult.drawn + 1]

\* Faulty variant: a failed unwrap is not propagated; AES256GCM.decrypt is entered
\* with whatever step 1 left.
decryptRequest_noAbort(encryptedPayload, serverPrivateKey) ==
  LET aesKey == decryptWithPrivateKey(encryptedPayload.encryptedAESKey, serverPrivateKey)
      plaintext == AES256GCM_decrypt([ciphertext |-> encryptedPayload.ciphertext,
                                      iv |-> encryptedPayload.iv,
                                      authTag |-> encryptedPayload.authTag,
                                      key |-> IF aesKey.ok THEN aesKey.value ELSE EmptyText])
  IN [ret |-> plaintext.ret, aesKey |-> aesKey, produced |-> plaintext.produced,
      invoked |-> <<"decryptWithPrivateKey", "AES256GCM.decrypt">>]

\* decryptRequest(encryptedPayload, serverPrivateKey).  invoked lists the
\* library functions the call entered, in order; aesKey is the outcome of
\* step 1; produced is what decipher.update had returned inside
\* AES256GCM.decrypt.
decryptRequest(encryptedPayload, serverPrivateKey) ==
  LET aesKey == decryptWithPrivateKey(encryptedPayload.encryptedAESKey, serverPrivateKey)
      plaintext == AES256GCM_decrypt([ciphertext |-> encryptedPayload.ciphertext,
                                      iv |-> encryptedPayload.iv,
                                      authTag |-> encryptedPayload.authTag,
                                      key |-> aesKey.value])
  IN IF ~aesKey.ok
       THEN [ret |-> aesKey, aesKey |-> aesKey, produced |-> <<>>,
             invoked |-> <<"decryptWithPrivateKey">>]
       ELSE [ret |-> plaintext.ret, aesKey |-> aesKey, produced |-> plaintext.produced,
             invoked |-> <<"decryptWithPrivateKey", "AES256GCM.decrypt">>]

\* ================================================================== state
VARIABLES
  keyPairs,   \* numbers of the RSA key pairs generated so far
  drawn,      \* how many values crypto.randomBytes has returned
  calls,      \* the encryptRequest calls made, in order
  opened,     \* decryptRequest calls, latest first (SpecReplay keeps all, the others one)
  store,      \* the rows of verification_records, in insertion order
  ledger,     \* the plaintext fields of each row of store
  ingested,   \* the latest ingest call (a sequence of length <= 1)
  searched,   \* the latest search call and the rows it ran against
  encrypted,  \* AES256GCM.encrypt calls, latest first (SpecNonce keeps all, the others one)
  decrypted,  \* the latest AES256GCM.decrypt call (a sequence of length <= 1)
  wrapped,    \* the encryptWithPublicKey calls made, in order
  unwrapped,  \* the latest two decryptWithPrivateKey calls, latest first
  sealing,    \* encryptRequest invocations under way or returned, in order of start
  opening,    \* decryptRequest invocations under way or returned, in order of start
  ingesting,  \* ingest invocations under way or returned, in order of start
  searching   \* search invocations under way or returned, in order of start

lib == <<keyPairs, drawn, calls, opened>>
svc == <<store, ledger, ingested, searched>>
prim == <<encrypted, decrypted, wrapped, unwrapped>>
conc == <<sealing, opening, ingesting, searching>>
vars == <<lib, svc, prim, conc>>

\* Names of the key pairs a run may generate.
KeyPairIds == {1, 2}

\* U+1F600 as a surrogate pair.
Emoji == <<55357, 56832>>
\* Payload strings: empty, ASCII, U+FFFD, a surrogate pair, lone surrogates.
Payloads ==
  { <<>>, <<97>>, <<97, 98>>, <<ReplacementChar>>,
    Emoji, <<Emoji[1]>>, <<Emoji[2], 97>> }

Init ==
  /\ keyPairs = {}
  /\ drawn = 0
  /\ calls = <<>>
  /\ opened = <<>>
  /\ store = <<>>
  /\ ledger = <<>>
  /\ ingested = <<>>
  /\ searched = <<>>
  /\ encrypted = <<>>
  /\ decrypted = <<>>
  /\ wrapped = <<>>
  /\ unwrapped = <<>>
  /\ sealing = <<>>
  /\ opening = <<>>
  /\ ingesting = <<>>
  /\ searching = <<>>

\* RSAKeyPairManager.generateKeyPair()
GenerateKeyPair ==
  /\ \E id \in KeyPairIds \ keyPairs : keyPairs' = keyPairs \cup {id}
  /\ UNCHANGED <<drawn, calls, opened, svc, prim, conc>>

\* SecureBridge.encryptRequest(payload, serverPublicKey)
EncryptRequest ==
  /\ Len(calls) < MaxCalls
  /\ \E payload \in Payloads, id \in keyPairs :
       LET serverPublicKey == generateKeyPair(id).publicKey
           call == encryptRequest(payload, serverPublicKey, drawn)
       IN /\ calls' = Append(calls, [payload |-> payload,
                                     serverPublicKey |-> serverPublicKey,
                                     ret |-> call.ret,
                                     aesKey |-> call.aesKey])
          /\ drawn' = call.drawn
  /\ UNCHANGED <<keyPairs, opened, svc, prim, conc>>

\* The envelopes encryptRequest has returned.
Envelopes == {calls[i].ret.value : i \in {j \in 1..Len(calls) : calls[j].ret.ok}}

\* What one decryptRequest call leaves in `opened`.
Opening(encryptedPayload, serverPrivateKey) ==
  LET call == decryptRequest(encryptedPayload, serverPrivateKey)
  IN <<[encryptedPayload |-> encryptedPayload,
        serverPrivateKey |-> serverPrivateKey,
        ret |-> call.ret,
        aesKey |-> call.aesKey,
        produced |-> call.produced,
        invoked |-> call.invoked]>>

\* SecureBridge.decryptRequest(encryptedPayload, serverPrivateKey) on an
\* envelope as it was sent.
DecryptRequest ==
  /\ \E encryptedPayload \in Envelopes, id \in keyPairs :
       opened' = Opening(encryptedPayload, generateKeyPair(id).privateKey)
  /\ UNCHANGED <<keyPairs, drawn, calls, svc, prim, conc>>

Next == GenerateKeyPair \/ EncryptRequest \/ DecryptRequest

Spec == Init /\ [][Next]_vars

\* ------------------------------------------------------------- tampering
\* One envelope has been sealed and is altered on the wire, in one field,
\* before the server opens it with the private key of the pair it was
\* sealed for.
InitOneSealed ==
  /\ keyPairs = KeyPairIds
  /\ opened = <<>>
  /\ store = <<>>
  /\ ledger = <<>>
  /\ ingested = <<>>
  /\ searched = <<>>
  /\ encrypted = <<>>
  /\ decrypted = <<>>
  /\ wrapped = <<>>
  /\ unwrapped = <<>>
  /\ sealing = <<>>
  /\ opening = <<>>
  /\ ingesting = <<>>
  /\ searching = <<>>
  /\ \E payload \in Payloads, id \in KeyPairIds :
       LET serverPublicKey == generateKeyPair(id).publicKey
           call == encryptRequest(payload, serverPublicKey, 0)
       IN /\ calls = <<[payload |-> payload,
                        serverPublicKey |-> serverPublicKey,
                        ret |-> call.ret,
                        aesKey |-> call.aesKey]>>
          /\ drawn = call.drawn

\* The amounts by which an altered byte differs from the original.
Deltas == {1, 255}
\* A byte string with the byte at position p changed by d.
AlterByte(buf, p, d) == [buf EXCEPT ![p] = (buf[p] + d) % 256]
\* A pseudo-random string with the byte at position p changed by d.
AlterDigest(x, p, d) == [x EXCEPT !.delta = {e \in x.delta : e[1] # p} \cup {<<p, d>>}]
\* The positions of a pseudo-random string of length n that are altered.
DigestPositions(n) == {p \in 1..n : p <= MaxTamperPos \/ p = n}
\* A base64 text whose last character has other unused low bits; there are
\* such bits when the byte count is not a multiple of three.
HasUnusedBits(n) == n % 3 # 0
AlterTail(text) == [text EXCEPT !.tail = 1 - text.tail]

\* The call's envelope opened with the matching private key after `field`
\* was replaced by `text`.
OpenAltered(j, field, text) ==
  opened' = Opening([calls[j].ret.value EXCEPT ![field] = text],
                    generateKeyPair(calls[j].serverPublicKey[2]).privateKey)

TamperCiphertext ==
  /\ \E j \in 1..Len(calls) :
       /\ calls[j].ret.ok
       /\ \E p \in 1..Len(fromBase64(calls[j].ret.value.ciphertext)), d \in Deltas :
            OpenAltered(j, "ciphertext",
                        toBase64(AlterByte(fromBase64(calls[j].ret.value.ciphertext), p, d)))
  /\ UNCHANGED <<keyPairs, drawn, calls, svc, prim, conc>>

TamperIV ==
  /\ \E j \in 1..Len(calls) :
       /\ calls[j].ret.ok
       /\ \E p \in 1..Len(fromBase64(calls[j].ret.value.iv)), d \in Deltas :
            OpenAltered(j, "iv", toBase64(AlterByte(fromBase64(calls[j].ret.value.iv), p, d)))
  /\ UNCHANGED <<keyPairs, drawn, calls, svc, prim, conc>>

TamperAuthTag ==
  /\ \E j \in 1..Len(calls) :
       /\ calls[j].ret.ok
       /\ \E p \in DigestPositions(fromBase64(calls[j].ret.value.authTag).len), d \in Deltas :
            OpenAltered(j, "authTag",
                        toBase64(AlterDigest(fromBase64(calls[j].ret.value.authTag), p, d)))
  /\ UNCHANGED <<keyPairs, drawn, calls, svc, prim, conc>>

TamperEncryptedAESKey ==
  /\ \E j \in 1..Len(calls) :
       /\ calls[j].ret.ok
       /\ \E p \in DigestPositions(fromBase64(calls[j].ret.value.encryptedAESKey).len),
             d \in Deltas :
            OpenAltered(j, "encryptedAESKey",
                        toBase64(AlterDigest(fromBase64(calls[j].ret.value.encryptedAESKey), p, d)))
  /\ UNCHANGED <<keyPairs, drawn, calls, svc, prim, conc>>

\* One character of the base64 text of a field is changed in its unused bits.
TamperUnusedBits ==
  /\ \E j \in 1..Len(calls) :
       /\ calls[j].ret.ok
       /\ \/ /\ HasUnusedBits(Len(fromBase64(calls[j].ret.value.ciphertext)))
             /\ OpenAltered(j, "ciphertext", AlterTail(calls[j].ret.value.ciphertext))
          \/ /\ HasUnusedBits(Len(fromBase64(calls[j].ret.value.iv)))
             /\ OpenAltered(j, "iv", AlterTail(calls[j].ret.value.iv))
          \/ /\ HasUnusedBits(fromBase64(calls[j].ret.value.authTag).len)
             /\ OpenAltered(j, "authTag", AlterTail(calls[j].ret.value.authTag))
          \/ /\ HasUnusedBits(fromBase64(calls[j].ret.value.encryptedAESKey).len)
             /\ OpenAltered(j, "encryptedAESKey", AlterTail(calls[j].ret.value.encryptedAESKey))
  /\ UNCHANGED <<keyPairs, drawn, calls, svc, prim, conc>>

\* The last byte of the ciphertext is removed.
AllButLast(buf) == SubSeq(buf, 1, Len(buf) - 1)
TruncateCiphertext ==
  /\ \E j \in 1..Len(calls) :
       /\ calls[j].ret.ok
       /\ fromBase64(calls[j].ret.value.ciphertext) # <<>>
       /\ OpenAltered(j, "ciphertext",
                      toBase64(AllButLast(fromBase64(calls[j].ret.value.ciphertext))))
  /\ UNCHANGED <<keyPairs, drawn, calls, svc, prim, conc>>

NextTamper ==
  \/ TamperCiphertext
  \/ TamperIV
  \/ TamperAuthTag
  \/ TamperEncryptedAESKey
  \/ TamperUnusedBits
  \/ TruncateCiphertext

SpecTamper == InitOneSealed /\ [][NextTamper]_vars

\* ============================================================= the service
\* The verification service: ingest opens an envelope with the library and
\* stores one row per payload (one randomized ciphertext column per field and
\* one deterministic index column); search looks a row up by its index token.

MaxIngests == 2      \* ingest calls that reach the storage encryption

\* The secrets the service is configured with.
RecipientKeyPair == generateKeyPair(1)
StorageKey == toBase64(randomBytes(KEY_LENGTH, 255))
IndexSecret == "HMAC_SECRET_KEY"

\* BlindIndexer.derive(secret, field): HMAC-SHA256, a keyed pseudo-random
\* function of the field.
derive(secret, field) == Digest(32, <<secret, field>>)

\* The payloads clients submit: "<nationalId>:<name>"; one has no separator.
Separator == 58
ServicePayloads ==
  { <<49, Separator>>, <<49, Separator, 97>>, <<50, Separator, 97>>, <<97>> }
Queries == { <<49>>, <<50>>, <<51>> }

\* The payload parsed into its searchable field and its other field.
parse(payload) ==
  LET seps == {i \in 1..Len(payload) : payload[i] = Separator}
      at == CHOOSE i \in seps : \A k \in seps : i <= k
  IN IF seps = {} THEN Throw("MalformedInputFailure")
     ELSE Return([nationalId |-> SubSeq(payload, 1, at - 1),
                  name |-> SubSeq(payload, at + 1, Len(payload))])

\* What a ciphertext column holds of an encryption result.
Column(result) ==
  [ciphertext |-> result.ciphertext, iv |-> result.iv, authTag |-> result.authTag]
\* The column decrypted under the storage key.
readColumn(column, storageKey) ==
  AES256GCM_decrypt([ciphertext |-> column.ciphertext, iv |-> column.iv,
                     authTag |-> column.authTag, key |-> storageKey]).ret

\* Faulty variant: a record whose index token is already stored overwrites
\* the stored row.
ingest_upsert(envelope, recipientPrivateKey, storageKey, indexSecret, table, r) ==
  LET payload == decryptRequest(envelope, recipientPrivateKey).ret
      fields == parse(payload.value)
      nationalId == AES256GCM_encrypt(fields.value.nationalId, KeyArg(storageKey), r)
      name == AES256GCM_encrypt(fields.value.name, KeyArg(storageKey), nationalId.drawn)
      token == derive(indexSecret, fields.value.nationalId)
      same == {k \in 1..Len(table) : table[k].national_id_index = token}
      row == [id |-> IF same = {} THEN Len(table) + 1 ELSE CHOOSE k \in same : TRUE,
              encrypted_national_id |-> Column(nationalId.ret.value),
              encrypted_name |-> Column(name.ret.value),
              national_id_index |-> token]
  IN IF ~payload.ok
       THEN [ret |-> payload, row |-> <<>>, table |-> table, drawn |-> r]
     ELSE IF ~fields.ok
       THEN [ret |-> fields, row |-> <<>>, table |-> table, drawn |-> r]
     ELSE IF ~nationalId.ret.ok
       THEN [ret |-> nationalId.ret, row |-> <<>>, table |-> table,
             drawn |-> nationalId.drawn]
     ELSE IF ~name.ret.ok
       THEN [ret |-> name.ret, row |-> <<>>, table |-> table, drawn |-> name.drawn]
     ELSE IF same # {}
       THEN [ret |-> Return(row.id), row |-> <<row>>,
             table |-> [table EXCEPT ![row.id] = row], drawn |-> name.drawn]
     ELSE [ret |-> Return(row.id), row |-> <<row>>, table |-> Append(table, row),
           drawn |-> name.drawn]

\* Faulty variant: the index column has no unique constraint.
ingest_noUnique(envelope, recipientPrivateKey, storageKey, indexSecret, table, r) ==
  LET payload == decryptRequest(envelope, recipientPrivateKey).ret
      fields == parse(payload.value)
      nationalId == AES256GCM_encrypt(fields.value.nationalId, KeyArg(storageKey), r)
      name == AES256GCM_encrypt(fields.value.name, KeyArg(storageKey), nationalId.drawn)
      row == [id |-> Len(table) + 1,
              encrypted_national_id |-> Column(nationalId.ret.value),
              encrypted_name |-> Column(name.ret.value),
              national_id_index |-> derive(indexSecret, fields.value.nationalId)]
  IN IF ~payload.ok
       THEN [ret |-> payload, row |-> <<>>, table |-> table, drawn |-> r]
     ELSE IF ~fields.ok
       THEN [ret |-> fields, row |-> <<>>, table |-> table, drawn |-> r]
     ELSE IF ~nationalId.ret.ok
       THEN [ret |-> nationalId.ret, row |-> <<>>, table |-> table,
             drawn |-> nationalId.drawn]
     ELSE IF ~name.ret.ok
       THEN [ret |-> name.ret, row |-> <<>>, table |-> table, drawn |-> name.drawn]
     ELSE [ret |-> Return(row.id), row |-> <<row>>, table |-> Append(table, row),
           drawn |-> name.drawn]

\* ingest(envelope, recipientPrivateKey, storageKey, indexSecret) against the
\* rows in table; r counts the random values drawn so far.  row is the row
\* the call assembled, if it came that far; table is the rows afterwards.
ingest(envelope, recipientPrivateKey, storageKey, indexSecret, table, r) ==
  LET payload == decryptRequest(envelope, recipientPrivateKey).ret
      fields == parse(payload.value)
      nationalId == AES256GCM_encrypt(fields.value.nationalId, KeyArg(storageKey), r)
      name == AES256GCM_encrypt(fields.value.name, KeyArg(storageKey), nationalId.drawn)
      row == [id |-> Len(table) + 1,
              encrypted_national_id |-> Column(nationalId.ret.value),
              encrypted_name |-> Column(name.ret.value),
              national_id_index |-> derive(indexSecret, fields.value.nationalId)]
  IN IF ~payload.ok
       THEN [ret |-> payload, row |-> <<>>, table |-> table, drawn |-> r]
     ELSE IF ~fields.ok
       THEN [ret |-> fields, row |-> <<>>, table |-> table, drawn |-> r]
     ELSE IF ~nationalId.ret.ok
       THEN [ret |-> nationalId.ret, row |-> <<>>, table |-> table,
             drawn |-> nationalId.drawn]
     ELSE IF ~name.ret.ok
       THEN [ret |-> name.ret, row |-> <<>>, table |-> table, drawn |-> name.drawn]
     ELSE IF \E k \in 1..Len(table) : table[k].national_id_index = row.national_id_index
       THEN [ret |-> Throw("UniqueViolation"), row |-> <<row>>, table |-> table,
             drawn |-> name.drawn]
     ELSE [ret |-> Return(row.id), row |-> <<row>>, table |-> Append(table, row),
           drawn |-> name.drawn]

\* search(query, indexSecret, storageKey) against the rows in table.
NotFound == [found |-> FALSE, nationalId |-> <<>>, name |-> <<>>]
search(query, indexSecret, storageKey, table) ==
  LET token == derive(indexSecret, query)
      hits == {k \in 1..Len(table) : table[k].national_id_index = token}
      row == table[CHOOSE k \in hits : TRUE]
      nationalId == readColumn(row.encrypted_national_id, storageKey)
      name == readColumn(row.encrypted_name, storageKey)
  IN IF hits = {} THEN Return(NotFound)
     ELSE IF ~nationalId.ok \/ ~name.ok THEN Throw("DataIntegrityFailure")
     ELSE Return([found |-> TRUE, nationalId |-> nationalId.value, name |-> name.value])

InitService ==
  /\ keyPairs = KeyPairIds
  /\ drawn = 0
  /\ calls = <<>>
  /\ opened = <<>>
  /\ store = <<>>
  /\ ledger = <<>>
  /\ ingested = <<>>
  /\ searched = <<>>
  /\ encrypted = <<>>
  /\ decrypted = <<>>
  /\ wrapped = <<>>
  /\ unwrapped = <<>>
  /\ sealing = <<>>
  /\ opening = <<>>
  /\ ingesting = <<>>
  /\ searching = <<>>

\* A client seals a payload, for the service's public key or for another.
Submit ==
  /\ Len(calls) < MaxCalls
  /\ \E payload \in ServicePayloads, id \in keyPairs :
       LET serverPublicKey == generateKeyPair(id).publicKey
           call == encryptRequest(payload, serverPublicKey, drawn)
       IN /\ calls' = Append(calls, [payload |-> payload,
                                     serverPublicKey |-> serverPublicKey,
                                     ret |-> call.ret,
                                     aesKey |-> call.aesKey])
          /\ drawn' = call.drawn
  /\ UNCHANGED <<keyPairs, opened, svc, prim, conc>>

\* The envelopes that reach the service: as sent, or with the first byte of
\* the tag or of the wrapped key changed.
Arriving ==
  Envelopes
    \cup {[e EXCEPT !.authTag = toBase64(AlterDigest(fromBase64(e.authTag), 1, 1))] :
            e \in Envelopes}
    \cup {[e EXCEPT !.encryptedAESKey =
                      toBase64(AlterDigest(fromBase64(e.encryptedAESKey), 1, 1))] :
            e \in Envelopes}

Ingest ==
  /\ drawn < 3 * MaxCalls + 2 * MaxIngests
  /\ \E envelope \in Arriving :
       LET call == ingest(envelope, RecipientKeyPair.privateKey, StorageKey, IndexSecret,
                          store, drawn)
       IN /\ ingested' = <<[envelope |-> envelope, ret |-> call.ret, row |-> call.row]>>
          /\ store' = call.table
          /\ ledger' = IF call.ret.ok
                         THEN Append(ledger,
                                     parse(decryptRequest(envelope,
                                             RecipientKeyPair.privateKey).ret.value).value)
                         ELSE ledger
          /\ drawn' = call.drawn
  /\ UNCHANGED <<keyPairs, calls, opened, searched, prim, conc>>

Search ==
  /\ \E query \in Queries :
       searched' = <<[query |-> query,
                      rows |-> Len(store),
                      table |-> store,
                      ret |-> search(query, IndexSecret, StorageKey, store)]>>
  /\ UNCHANGED <<lib, store, ledger, ingested, prim, conc>>

NextService == Submit \/ Ingest \/ Search

SpecService == InitService /\ [][NextService]_vars

\* -------------------------------------------------------- stored data
\* The ciphertext columns of a row, and whether every column of every row
\* still authenticates under the storage key.
ColumnNames == {"encrypted_national_id", "encrypted_name"}
Intact(table) ==
  \A k \in 1..Len(table), c \in ColumnNames : readColumn(table[k][c], StorageKey).ok

\* A stored ciphertext column is damaged: the first byte of its tag changes.
CorruptColumn ==
  /\ Intact(store)
  /\ \E k \in 1..Len(store), c \in ColumnNames :
       store' = [store EXCEPT
                   ![k][c].authTag = toBase64(AlterDigest(fromBase64(@), 1, 1))]
  /\ UNCHANGED <<lib, ledger, ingested, searched, prim, conc>>

\* The table after two clients each sealed a payload for the service and
\* the service ingested the two envelopes.
InitStored ==
  /\ keyPairs = KeyPairIds
  /\ opened = <<>>
  /\ searched = <<>>
  /\ encrypted = <<>>
  /\ decrypted = <<>>
  /\ wrapped = <<>>
  /\ unwrapped = <<>>
  /\ sealing = <<>>
  /\ opening = <<>>
  /\ ingesting = <<>>
  /\ searching = <<>>
  /\ \E p1 \in ServicePayloads, p2 \in ServicePayloads :
       \E sealed1 \in {encryptRequest(p1, RecipientKeyPair.publicKey, 0)} :
       \E sealed2 \in {encryptRequest(p2, RecipientKeyPair.publicKey, sealed1.drawn)} :
       \E ingest1 \in {ingest(sealed1.ret.value, RecipientKeyPair.privateKey, StorageKey,
                              IndexSecret, <<>>, sealed2.drawn)} :
       \E ingest2 \in {ingest(sealed2.ret.value, RecipientKeyPair.privateKey, StorageKey,
                              IndexSecret, ingest1.table, ingest1.drawn)} :
          /\ calls = <<[payload |-> p1,
                        serverPublicKey |-> RecipientKeyPair.publicKey,
                        ret |-> sealed1.ret,
                        aesKey |-> sealed1.aesKey],
                       [payload |-> p2,
                        serverPublicKey |-> RecipientKeyPair.publicKey,
                        ret |-> sealed2.ret,
                        aesKey |-> sealed2.aesKey]>>
          /\ drawn = ingest2.drawn
          /\ store = ingest2.table
          /\ ledger = (IF ingest1.ret.ok THEN <<parse(p1).value>> ELSE <<>>)
                        \o (IF ingest2.ret.ok THEN <<parse(p2).value>> ELSE <<>>)
          /\ ingested = <<[envelope |-> sealed2.ret.value,
                           ret |-> ingest2.ret,
                           row |-> ingest2.row]>>

NextStorage == CorruptColumn \/ Search

SpecStorage == InitStored /\ [][NextStorage]_vars

\* ------------------------------------------------- AES256GCM called directly
\* Plaintext strings: empty, ASCII, a surrogate pair, a lone surrogate.
Plaintexts == { <<>>, <<97>>, Emoji, <<Emoji[1]>> }
\* Keys a caller passes: a 256-bit key and a 128-bit key, base64 encoded.
SuppliedKey == toBase64(randomBytes(KEY_LENGTH, 254))
ShortKey == toBase64(randomBytes(KEY_LENGTH \div 2, 253))
\* The key argument: omitted, a 256-bit key, the empty string, a short key.
KeyArgs == { NoKey, KeyArg(SuppliedKey), KeyArg(EmptyText), KeyArg(ShortKey) }

\* AES256GCM.encrypt(plaintext, key?); draws is the number of values the call
\* took from randomBytes (one for the IV, one more for a generated key).
Encrypt ==
  /\ drawn < 2 * MaxCalls
  /\ \E plaintext \in Plaintexts, key \in KeyArgs :
       LET call == AES256GCM_encrypt(plaintext, key, drawn)
       IN /\ encrypted' = <<[plaintext |-> plaintext,
                             key |-> key,
                             ret |-> call.ret,
                             draws |-> call.drawn - drawn]>>
          /\ drawn' = call.drawn
  /\ UNCHANGED <<keyPairs, calls, opened, svc, decrypted, wrapped, unwrapped, conc>>

\* The fields of the input of AES256GCM.decrypt, and the input made of what
\* encrypt call j returned.
InputFields == {"ciphertext", "iv", "authTag", "key"}
AsReturned(j) ==
  [ciphertext |-> encrypted[j].ret.value.ciphertext,
   iv |-> encrypted[j].ret.value.iv,
   authTag |-> encrypted[j].ret.value.authTag,
   key |-> encrypted[j].ret.value.key]
\* What one AES256GCM.decrypt call leaves in `decrypted`.
Decrypting(j, input) ==
  LET call == AES256GCM_decrypt(input)
  IN <<[source |-> j, input |-> input, ret |-> call.ret, produced |-> call.produced]>>

\* AES256GCM.decrypt on what encrypt returned.
Decrypt ==
  /\ \E j \in 1..Len(encrypted) :
       /\ encrypted[j].ret.ok
       /\ decrypted' = Decrypting(j, AsReturned(j))
  /\ UNCHANGED <<lib, svc, encrypted, wrapped, unwrapped, conc>>

\* A text that is not valid base64: the text with a character outside the
\* alphabet put in, and a text of such characters only.
EmptyDigest == [len |-> 0, src |-> <<>>, delta |-> {}]
WithJunk(text) == [text EXCEPT !.junk = 1]
OnlyJunk(field) ==
  [bytes |-> IF field = "authTag" THEN EmptyDigest ELSE <<>>, tail |-> 0, junk |-> 1]

\* AES256GCM.decrypt with one field that is not valid base64.
DecryptMalformed ==
  /\ \E j \in 1..Len(encrypted) :
       /\ encrypted[j].ret.ok
       /\ \E f \in InputFields :
            \E text \in {WithJunk(AsReturned(j)[f]), OnlyJunk(f)} :
              decrypted' = Decrypting(j, [AsReturned(j) EXCEPT ![f] = text])
  /\ UNCHANGED <<lib, svc, encrypted, wrapped, unwrapped, conc>>

\* AES256GCM.decrypt with a validly encoded tag that is not the one returned.
DecryptWrongTag ==
  /\ \E j \in 1..Len(encrypted) :
       /\ encrypted[j].ret.ok
       /\ \E p \in DigestPositions(AUTH_TAG_LENGTH), d \in Deltas :
            decrypted' =
              Decrypting(j, [AsReturned(j) EXCEPT
                               !.authTag = toBase64(AlterDigest(fromBase64(@), p, d))])
  /\ UNCHANGED <<lib, svc, encrypted, wrapped, unwrapped, conc>>

\* AES256GCM.decrypt with the first n bytes of the tag encrypt returned.
DecryptShortTag ==
  /\ \E j \in 1..Len(encrypted) :
       /\ encrypted[j].ret.ok
       /\ \E n \in 0..(AUTH_TAG_LENGTH - 1) :
            decrypted' =
              Decrypting(j, [AsReturned(j) EXCEPT
                               !.authTag = toBase64(Prefix(fromBase64(@), n))])
  /\ UNCHANGED <<lib, svc, encrypted, wrapped, unwrapped, conc>>

NextAES == Encrypt \/ Decrypt \/ DecryptMalformed \/ DecryptWrongTag \/ DecryptShortTag

SpecAES == Init /\ [][NextAES]_vars

\* ------------------------------------------- RSAKeyPairManager called directly
\* Data strings a caller wraps: a base64 encoded 256-bit key, the same key
\* written with other unused bits in its last character, the same key with
\* a character outside the alphabet put in, and the encoding of one byte
\* more than OAEP leaves room for.
LargestData == ModulusBytes - 2 * OAEP_HASH_LENGTH - 2
WrapData ==
  { SuppliedKey, AlterTail(SuppliedKey), WithJunk(SuppliedKey),
    toBase64([i \in 1..(LargestData + 1) |-> 0]) }

InitKeyPairs ==
  /\ keyPairs = KeyPairIds
  /\ drawn = 0
  /\ calls = <<>>
  /\ opened = <<>>
  /\ store = <<>>
  /\ ledger = <<>>
  /\ ingested = <<>>
  /\ searched = <<>>
  /\ encrypted = <<>>
  /\ decrypted = <<>>
  /\ wrapped = <<>>
  /\ unwrapped = <<>>
  /\ sealing = <<>>
  /\ opening = <<>>
  /\ ingesting = <<>>
  /\ searching = <<>>

\* RSAKeyPairManager.encryptWithPublicKey(data, publicKeyPEM)
EncryptWithPublicKey ==
  /\ Len(wrapped) < MaxCalls
  /\ \E data \in WrapData, id \in keyPairs :
       LET publicKeyPEM == generateKeyPair(id).publicKey
       IN wrapped' = Append(wrapped,
                            [data |-> data,
                             publicKeyPEM |-> publicKeyPEM,
                             ret |-> encryptWithPublicKey(data, publicKeyPEM, drawn + 1)])
  /\ drawn' = drawn + 1
  /\ UNCHANGED <<keyPairs, calls, opened, svc, encrypted, decrypted, unwrapped, conc>>

\* What one decryptWithPrivateKey call leaves in `unwrapped`: the call and
\* the one made before it.
Unwrapping(j, encryptedData, privateKeyPEM) ==
  <<[source |-> j,
     encryptedData |-> encryptedData,
     privateKeyPEM |-> privateKeyPEM,
     ret |-> decryptWithPrivateKey(encryptedData, privateKeyPEM)]>>
    \o SubSeq(unwrapped, 1, IF unwrapped = <<>> THEN 0 ELSE 1)

\* RSAKeyPairManager.decryptWithPrivateKey on what encryptWithPublicKey
\* returned, with the private key of the same pair or of another.
DecryptWithPrivateKey ==
  /\ \E j \in 1..Len(wrapped), id \in keyPairs :
       /\ wrapped[j].ret.ok
       /\ unwrapped' = Unwrapping(j, wrapped[j].ret.value, generateKeyPair(id).privateKey)
  /\ UNCHANGED <<lib, svc, encrypted, decrypted, wrapped, conc>>

\* decryptWithPrivateKey, matching private key, one wrapped byte changed.
DecryptCorrupted ==
  /\ \E j \in 1..Len(wrapped) :
       /\ wrapped[j].ret.ok
       /\ \E p \in DigestPositions(ModulusBytes) :
            unwrapped' =
              Unwrapping(j, toBase64(AlterDigest(fromBase64(wrapped[j].ret.value), p, 1)),
                         generateKeyPair(wrapped[j].publicKeyPEM[2]).privateKey)
  /\ UNCHANGED <<lib, svc, encrypted, decrypted, wrapped, conc>>

\* decryptWithPrivateKey, matching private key, wrapped bytes one byte
\* shorter or one byte longer than the modulus.
DecryptWrongLength ==
  /\ \E j \in 1..Len(wrapped) :
       /\ wrapped[j].ret.ok
       /\ \E n \in {ModulusBytes - 1, ModulusBytes + 1} :
            unwrapped' =
              Unwrapping(j, toBase64([fromBase64(wrapped[j].ret.value) EXCEPT !.len = n]),
                         generateKeyPair(wrapped[j].publicKeyPEM[2]).privateKey)
  /\ UNCHANGED <<lib, svc, encrypted, decrypted, wrapped, conc>>

NextRSA ==
  \/ EncryptWithPublicKey
  \/ DecryptWithPrivateKey
  \/ DecryptCorrupted
  \/ DecryptWrongLength

SpecRSA == InitKeyPairs /\ [][NextRSA]_vars

\* ------------------------------------------------------------------ replay
\* The sealed envelope is presented to decryptRequest, unchanged, any number
\* of times; `opened` keeps every presentation, latest first.
Present ==
  /\ Len(opened) <= MaxCalls
  /\ \E encryptedPayload \in Envelopes, id \in keyPairs :
       opened' = Opening(encryptedPayload, generateKeyPair(id).privateKey) \o opened
  /\ UNCHANGED <<keyPairs, drawn, calls, svc, prim, conc>>

NextReplay == Present

SpecReplay == InitOneSealed /\ [][NextReplay]_vars

\* ---------------------------------------------------------- large payloads
\* Payloads of the longest size one RSA-OAEP block takes, of one byte more,
\* and of two moduli.
LargePayloads ==
  { [i \in 1..n |-> 120] : n \in {LargestData, LargestData + 1, 2 * ModulusBytes} }

\* SecureBridge.encryptRequest(largePayload, serverPublicKey)
EncryptLargeRequest ==
  /\ Len(calls) < MaxCalls
  /\ \E payload \in LargePayloads, id \in keyPairs :
       LET serverPublicKey == generateKeyPair(id).publicKey
           call == encryptRequest(payload, serverPublicKey, drawn)
       IN /\ calls' = Append(calls, [payload |-> payload,
                                     serverPublicKey |-> serverPublicKey,
                                     ret |-> call.ret,
                                     aesKey |-> call.aesKey])
          /\ drawn' = call.drawn
  /\ UNCHANGED <<keyPairs, opened, svc, prim, conc>>

NextLarge == GenerateKeyPair \/ EncryptLargeRequest \/ DecryptRequest

SpecLarge == Init /\ [][NextLarge]_vars

\* ------------------------------------------------------------ nonce use
\* A second 256-bit key a caller passes.
OtherKey == toBase64(randomBytes(KEY_LENGTH, 252))
\* A sequence of AES256GCM.encrypt calls, all of them kept, latest first;
\* before is the number of values randomBytes had returned when the call began.
EncryptAgain ==
  /\ Len(encrypted) <= MaxCalls
  /\ \E plaintext \in Plaintexts, key \in {NoKey, KeyArg(SuppliedKey), KeyArg(OtherKey)} :
       LET call == AES256GCM_encrypt(plaintext, key, drawn)
       IN /\ encrypted' = <<[plaintext |-> plaintext,
                             key |-> key,
                             ret |-> call.ret,
                             before |-> drawn,
                             draws |-> call.drawn - drawn]>> \o encrypted
          /\ drawn' = call.drawn
  /\ UNCHANGED <<keyPairs, calls, opened, svc, decrypted, wrapped, unwrapped, conc>>

NextNonce == EncryptAgain

SpecNonce == Init /\ [][NextNonce]_vars

\* ------------------------------------------------------------ forged envelopes
\* A 264-bit key.
LongKey == toBase64(randomBytes(KEY_LENGTH + 1, 251))
\* The keys a sender that does not use encryptRequest may wrap.
ForgedKeys == {SuppliedKey, ShortKey, LongKey, EmptyText}
\* An envelope built outside encryptRequest: the payload encrypted and tagged
\* under aesKey by a cipher that takes the key at whatever length it has, and
\* aesKey wrapped for the server by encryptWithPublicKey.
Forged(payload, aesKey, serverPublicKey) ==
  LET keyBuffer == fromBase64(aesKey)
      ivBuffer == randomBytes(IV_LENGTH, 250)
      data == GcmEncrypt(keyBuffer, ivBuffer, utf8Encode(payload))
  IN [ciphertext |-> toBase64(data),
      encryptedAESKey |-> encryptWithPublicKey(aesKey, serverPublicKey, 249).value,
      iv |-> toBase64(ivBuffer),
      authTag |-> toBase64(GcmTag(keyBuffer, ivBuffer, data))]

\* decryptRequest on such an envelope.
OpenForged ==
  /\ \E payload \in Payloads, aesKey \in ForgedKeys, to \in keyPairs, id \in keyPairs :
       opened' = Opening(Forged(payload, aesKey, generateKeyPair(to).publicKey),
                         generateKeyPair(id).privateKey)
  /\ UNCHANGED <<keyPairs, drawn, calls, svc, prim, conc>>

NextForge == GenerateKeyPair \/ OpenForged

SpecForge == Init /\ [][NextForge]_vars

\* ------------------------------------------------------------ concurrent calls
\* encryptRequest and decryptRequest invocations that run at the same time,
\* on worker threads or otherwise, taken one statement at a time in any
\* order.  An invocation's frame holds its arguments, its position pc and its
\* local variables; randomBytes is the one thing the invocations share.
Pending == [ok |-> FALSE, value |-> <<>>, error |-> "pending"]
ConcurrentPayloads == { <<97>>, <<Emoji[1]>> }

\* The local variable `name` of invocation k: locals belong to the invocation.
\* Faulty variant: the value is kept in one place for all invocations, where
\* the invocation started last finds and leaves it.
Local_static(frames, k, name) == frames[Len(frames)][name]
Local(frames, k, name) == frames[k][name]

\* encryptRequest(payload, serverPublicKey) is called.
StartEncryptRequest ==
  /\ Len(sealing) < MaxCalls
  /\ \E payload \in ConcurrentPayloads, id \in keyPairs :
       sealing' = Append(sealing,
                         [payload |-> payload,
                          serverPublicKey |-> generateKeyPair(id).publicKey,
                          pc |-> "generateKey",
                          aesKey |-> EmptyText,
                          iv |-> EmptyText,
                          ciphertext |-> EmptyText,
                          authTag |-> toBase64(EmptyDigest),
                          encryptedAESKey |-> toBase64(EmptyDigest),
                          draws |-> <<>>,
                          ret |-> Pending])
  /\ UNCHANGED <<lib, svc, prim, opening, ingesting, searching>>

\* const aesKey = key || this.generateKey(), with no key passed.
SealGenerateKey(k) ==
  /\ sealing[k].pc = "generateKey"
  /\ sealing' = [sealing EXCEPT ![k].aesKey = generateKey(drawn),
                                ![k].draws = Append(@, drawn + 1),
                                ![k].pc = "generateIV"]
  /\ drawn' = drawn + 1
  /\ UNCHANGED <<keyPairs, calls, opened, svc, prim, opening, ingesting, searching>>

\* const iv = this.generateIV()
SealGenerateIV(k) ==
  /\ sealing[k].pc = "generateIV"
  /\ sealing' = [sealing EXCEPT ![k].iv = generateIV(drawn),
                                ![k].draws = Append(@, drawn + 1),
                                ![k].pc = "cipher"]
  /\ drawn' = drawn + 1
  /\ UNCHANGED <<keyPairs, calls, opened, svc, prim, opening, ingesting, searching>>

\* createCipheriv, update, final, getAuthTag
SealCipher(k) ==
  /\ sealing[k].pc = "cipher"
  /\ LET keyBuffer == fromBase64(Local(sealing, k, "aesKey"))
         ivBuffer == fromBase64(Local(sealing, k, "iv"))
         ciphertext == GcmEncrypt(keyBuffer, ivBuffer, utf8Encode(sealing[k].payload))
     IN sealing' =
          IF Len(keyBuffer) # KEY_LENGTH
            THEN [sealing EXCEPT ![k].ret = Throw("Invalid key length"), ![k].pc = "done"]
            ELSE [sealing EXCEPT ![k].ciphertext = toBase64(ciphertext),
                                 ![k].authTag = toBase64(GcmTag(keyBuffer, ivBuffer, ciphertext)),
                                 ![k].pc = "wrap"]
  /\ UNCHANGED <<lib, svc, prim, opening, ingesting, searching>>

\* const encryptedAESKey = RSAKeyPairManager.encryptWithPublicKey(aesResult.key, ...)
SealWrap(k) ==
  /\ sealing[k].pc = "wrap"
  /\ LET encryptedAESKey == encryptWithPublicKey(Local(sealing, k, "aesKey"),
                                                 sealing[k].serverPublicKey, drawn + 1)
     IN sealing' =
          IF ~encryptedAESKey.ok
            THEN [sealing EXCEPT ![k].ret = encryptedAESKey, ![k].pc = "done"]
            ELSE [sealing EXCEPT ![k].encryptedAESKey = encryptedAESKey.value,
                                 ![k].draws = Append(@, drawn + 1),
                                 ![k].pc = "return"]
  /\ drawn' = drawn + 1
  /\ UNCHANGED <<keyPairs, calls, opened, svc, prim, opening, ingesting, searching>>

\* return { ciphertext, encryptedAESKey, iv, authTag }
SealReturn(k) ==
  /\ sealing[k].pc = "return"
  /\ sealing' = [sealing EXCEPT
                   ![k].ret = Return([ciphertext |-> Local(sealing, k, "ciphertext"),
                                      encryptedAESKey |-> Local(sealing, k, "encryptedAESKey"),
                                      iv |-> Local(sealing, k, "iv"),
                                      authTag |-> Local(sealing, k, "authTag")]),
                   ![k].pc = "done"]
  /\ UNCHANGED <<lib, svc, prim, opening, ingesting, searching>>

\* decryptRequest(encryptedPayload, serverPrivateKey) is called on an
\* envelope some encryptRequest invocation has returned.
StartDecryptRequest ==
  /\ Len(opening) < MaxCalls
  /\ \E j \in 1..Len(sealing), id \in keyPairs :
       /\ sealing[j].pc = "done"
       /\ sealing[j].ret.ok
       /\ opening' = Append(opening,
                            [encryptedPayload |-> sealing[j].ret.value,
                             serverPrivateKey |-> generateKeyPair(id).privateKey,
                             pc |-> "unwrap",
                             aesKey |-> EmptyText,
                             ret |-> Pending])
  /\ UNCHANGED <<lib, svc, prim, sealing, ingesting, searching>>

\* const aesKey = RSAKeyPairManager.decryptWithPrivateKey(...)
OpenUnwrap(k) ==
  /\ opening[k].pc = "unwrap"
  /\ LET aesKey == decryptWithPrivateKey(opening[k].encryptedPayload.encryptedAESKey,
                                         opening[k].serverPrivateKey)
     IN opening' =
          IF ~aesKey.ok
            THEN [opening EXCEPT ![k].ret = aesKey, ![k].pc = "done"]
            ELSE [opening EXCEPT ![k].aesKey = aesKey.value, ![k].pc = "decrypt"]
  /\ UNCHANGED <<lib, svc, prim, sealing, ingesting, searching>>

\* const plaintext = AES256GCM.decrypt({...}); return plaintext
OpenDecrypt(k) ==
  /\ opening[k].pc = "decrypt"
  /\ opening' =
       [opening EXCEPT
          ![k].ret = AES256GCM_decrypt([ciphertext |-> opening[k].encryptedPayload.ciphertext,
                                        iv |-> opening[k].encryptedPayload.iv,
                                        authTag |-> opening[k].encryptedPayload.authTag,
                                        key |-> Local(opening, k, "aesKey")]).ret,
          ![k].pc = "done"]
  /\ UNCHANGED <<lib, svc, prim, sealing, ingesting, searching>>

NextConcurrent ==
  \/ StartEncryptRequest
  \/ \E k \in 1..Len(sealing) : SealGenerateKey(k)
  \/ \E k \in 1..Len(sealing) : SealGenerateIV(k)
  \/ \E k \in 1..Len(sealing) : SealCipher(k)
  \/ \E k \in 1..Len(sealing) : SealWrap(k)
  \/ \E k \in 1..Len(sealing) : SealReturn(k)
  \/ StartDecryptRequest
  \/ \E k \in 1..Len(opening) : OpenUnwrap(k)
  \/ \E k \in 1..Len(opening) : OpenDecrypt(k)

SpecConcurrent == InitKeyPairs /\ [][NextConcurrent]_vars

\* ------------------------------------------------------------ concurrent requests
\* ingest and search requests that run at the same time, one step at a time
\* in any order.  The storage collaborator's insert and findByIndexToken are
\* single steps: a record is inserted whole or not at all.
MissingColumn ==
  [ciphertext |-> EmptyText, iv |-> EmptyText, authTag |-> toBase64(EmptyDigest)]

\* Faulty variant: the row is written column by column and the step ends
\* with the index token and the first column in place.
insert_columnwise(table, record) ==
  IF \E k \in 1..Len(table) : table[k].national_id_index = record.national_id_index
    THEN [ret |-> Throw("UniqueViolation"), table |-> table]
    ELSE [ret |-> Return(Len(table) + 1),
          table |-> Append(table, [id |-> Len(table) + 1,
                                   encrypted_national_id |-> record.encrypted_national_id,
                                   encrypted_name |-> MissingColumn,
                                   national_id_index |-> record.national_id_index])]
\* insert(record) -> id
insert(table, record) ==
  IF \E k \in 1..Len(table) : table[k].national_id_index = record.national_id_index
    THEN [ret |-> Throw("UniqueViolation"), table |-> table]
    ELSE [ret |-> Return(Len(table) + 1),
          table |-> Append(table, [id |-> Len(table) + 1,
                                   encrypted_national_id |-> record.encrypted_national_id,
                                   encrypted_name |-> record.encrypted_name,
                                   national_id_index |-> record.national_id_index])]

\* findByIndexToken(token) -> record | none
findByIndexToken(table, token) ==
  LET hits == {k \in 1..Len(table) : table[k].national_id_index = token}
  IN IF hits = {} THEN <<>> ELSE <<table[CHOOSE k \in hits : TRUE]>>

\* The payloads clients have sealed for the service: two people, a second
\* payload for the first of them, and a payload with no separator.
SubmittedPayloads ==
  << <<49, Separator, 97>>, <<49, Separator>>, <<50, Separator, 97>>, <<97>> >>

InitInterleaved ==
  /\ keyPairs = KeyPairIds
  /\ drawn = 3 * Len(SubmittedPayloads)
  /\ calls = [i \in 1..Len(SubmittedPayloads) |->
                LET sealed == encryptRequest(SubmittedPayloads[i], RecipientKeyPair.publicKey,
                                             3 * (i - 1))
                IN [payload |-> SubmittedPayloads[i],
                    serverPublicKey |-> RecipientKeyPair.publicKey,
                    ret |-> sealed.ret,
                    aesKey |-> sealed.aesKey]]
  /\ opened = <<>>
  /\ store = <<>>
  /\ ledger = <<>>
  /\ ingested = <<>>
  /\ searched = <<>>
  /\ encrypted = <<>>
  /\ decrypted = <<>>
  /\ wrapped = <<>>
  /\ unwrapped = <<>>
  /\ sealing = <<>>
  /\ opening = <<>>
  /\ ingesting = <<>>
  /\ searching = <<>>

\* An ingest request arrives.
StartIngest ==
  /\ Len(ingesting) < MaxIngests
  /\ \E envelope \in Envelopes :
       ingesting' = Append(ingesting,
                           [envelope |-> envelope,
                            pc |-> "open",
                            payload |-> <<>>,
                            fields |-> [nationalId |-> <<>>, name |-> <<>>],
                            encrypted_national_id |-> MissingColumn,
                            encrypted_name |-> MissingColumn,
                            national_id_index |-> EmptyDigest,
                            ret |-> Pending])
  /\ UNCHANGED <<lib, svc, prim, sealing, opening, searching>>

\* Open the envelope with the recipient private key.
IngestOpen(k) ==
  /\ ingesting[k].pc = "open"
  /\ LET payload == decryptRequest(ingesting[k].envelope, RecipientKeyPair.privateKey).ret
     IN ingesting' =
          IF ~payload.ok
            THEN [ingesting EXCEPT ![k].ret = payload, ![k].pc = "done"]
            ELSE [ingesting EXCEPT ![k].payload = payload.value, ![k].pc = "parse"]
  /\ UNCHANGED <<lib, svc, prim, sealing, opening, searching>>

\* Parse the payload into its fields.
IngestParse(k) ==
  /\ ingesting[k].pc = "parse"
  /\ LET fields == parse(ingesting[k].payload)
     IN ingesting' =
          IF ~fields.ok
            THEN [ingesting EXCEPT ![k].ret = fields, ![k].pc = "done"]
            ELSE [ingesting EXCEPT ![k].fields = fields.value, ![k].pc = "encrypt"]
  /\ UNCHANGED <<lib, svc, prim, sealing, opening, searching>>

\* Encrypt each field under the storage key, each with an IV of its own.
IngestEncrypt(k) ==
  /\ ingesting[k].pc = "encrypt"
  /\ LET nationalId == AES256GCM_encrypt(ingesting[k].fields.nationalId,
                                         KeyArg(StorageKey), drawn)
         name == AES256GCM_encrypt(ingesting[k].fields.name, KeyArg(StorageKey),
                                   nationalId.drawn)
     IN /\ ingesting' =
             IF ~nationalId.ret.ok
               THEN [ingesting EXCEPT ![k].ret = nationalId.ret, ![k].pc = "done"]
             ELSE IF ~name.ret.ok
               THEN [ingesting EXCEPT ![k].ret = name.ret, ![k].pc = "done"]
             ELSE [ingesting EXCEPT
                     ![k].encrypted_national_id = Column(nationalId.ret.value),
                     ![k].encrypted_name = Column(name.ret.value),
                     ![k].pc = "derive"]
        /\ drawn' = name.drawn
  /\ UNCHANGED <<keyPairs, calls, opened, svc, prim, sealing, opening, searching>>

\* Derive the index token of the searchable field.
IngestDerive(k) ==
  /\ ingesting[k].pc = "derive"
  /\ ingesting' =
       [ingesting EXCEPT
          ![k].national_id_index = derive(IndexSecret, ingesting[k].fields.nationalId),
          ![k].pc = "insert"]
  /\ UNCHANGED <<lib, svc, prim, sealing, opening, searching>>

\* Persist the assembled record and return its id.
IngestInsert(k) ==
  /\ ingesting[k].pc = "insert"
  /\ LET inserted == insert(store, ingesting[k])
     IN /\ store' = inserted.table
        /\ ingesting' = [ingesting EXCEPT ![k].ret = inserted.ret, ![k].pc = "done"]
  /\ UNCHANGED <<lib, ledger, ingested, searched, prim, sealing, opening, searching>>

\* A search request arrives.
StartSearch ==
  /\ Len(searching) < MaxCalls
  /\ \E query \in Queries :
       searching' = Append(searching,
                           [query |-> query,
                            pc |-> "lookup",
                            record |-> <<>>,
                            rows |-> 0,
                            ret |-> Pending])
  /\ UNCHANGED <<lib, svc, prim, sealing, opening, ingesting>>

\* Derive the token of the query and look it up; rows is the number of rows
\* the table held at that moment.
SearchLookup(k) ==
  /\ searching[k].pc = "lookup"
  /\ searching' =
       [searching EXCEPT
          ![k].record = findByIndexToken(store, derive(IndexSecret, searching[k].query)),
          ![k].rows = Len(store),
          ![k].pc = "decrypt"]
  /\ UNCHANGED <<lib, svc, prim, sealing, opening, ingesting>>

\* Decrypt the columns of the record found and return the fields.
SearchDecrypt(k) ==
  /\ searching[k].pc = "decrypt"
  /\ searching' =
       [searching EXCEPT
          ![k].ret = search(searching[k].query, IndexSecret, StorageKey, searching[k].record),
          ![k].pc = "done"]
  /\ UNCHANGED <<lib, svc, prim, sealing, opening, ingesting>>

NextInterleaved ==
  \/ StartIngest
  \/ \E k \in 1..Len(ingesting) : IngestOpen(k)
  \/ \E k \in 1..Len(ingesting) : IngestParse(k)
  \/ \E k \in 1..Len(ingesting) : IngestEncrypt(k)
  \/ \E k \in 1..Len(ingesting) : IngestDerive(k)
  \/ \E k \in 1..Len(ingesting) : IngestInsert(k)
  \/ StartSearch
  \/ \E k \in 1..Len(searching) : SearchLookup(k)
  \/ \E k \in 1..Len(searching) : SearchDecrypt(k)

SpecInterleaved == InitInterleaved /\ [][NextInterleaved]_vars

\* ================================================================= claims
\* The successful encryptRequest calls, and the decryptRequest calls, of a state.
Sealed == {j \in 1..Len(calls) : calls[j].ret.ok}
Opened == 1..Len(opened)
\* opened[i] is call j's envelope, unaltered, under the private key of the
\* pair whose public key sealed it.
OpensOwn(i, j) ==
  /\ opened[i].encryptedPayload = calls[j].ret.value
  /\ opened[i].serverPrivateKey[2] = calls[j].serverPublicKey[2]
\* opened[i] is call j's envelope under the private key of another pair.
OpensForeign(i, j) ==
  /\ opened[i].encryptedPayload = calls[j].ret.value
  /\ opened[i].serverPrivateKey[2] # calls[j].serverPublicKey[2]

\* A string with no lone surrogate.
RECURSIVE WellFormed(_)
WellFormed(s) ==
  IF s = <<>> THEN TRUE
  ELSE IF IsHigh(s[1]) THEN Len(s) >= 2 /\ IsLow(s[2]) /\ WellFormed(SubSeq(s, 3, Len(s)))
  ELSE ~IsLow(s[1]) /\ WellFormed(Tail(s))

\* C1 as stated: decryptRequest(encryptRequest(P, K.publicKey), K.privateKey)
\* returns exactly P for every payload string P.
C1_RoundTripEveryString ==
  \A i \in Opened, j \in Sealed :
    OpensOwn(i, j) => opened[i].ret = Return(calls[j].payload)

\* C1 amended: the round trip returns exactly P for every payload string P
\* that has no lone surrogate (the empty string included).
C1_RoundTripWellFormed ==
  \A i \in Opened, j \in Sealed :
    OpensOwn(i, j) /\ WellFormed(calls[j].payload)
      => opened[i].ret = Return(calls[j].payload)

C1_Witness ==
  \E i \in Opened, j \in Sealed :
    /\ OpensOwn(i, j)
    /\ calls[j].payload = Emoji
    /\ opened[i].ret = Return(calls[j].payload)

\* C3 as stated: two encryptRequest calls on the same payload and public
\* key return envelopes that differ in ciphertext, in iv and in
\* encryptedAESKey, the empty payload included.
C3_FreshInEveryField ==
  \A i \in Sealed, j \in Sealed :
    (/\ i < j
     /\ calls[i].payload = calls[j].payload
     /\ calls[i].serverPublicKey = calls[j].serverPublicKey)
      => /\ calls[i].ret.value.ciphertext # calls[j].ret.value.ciphertext
         /\ calls[i].ret.value.iv # calls[j].ret.value.iv
         /\ calls[i].ret.value.encryptedAESKey # calls[j].ret.value.encryptedAESKey

\* C3 amended: two encryptRequest calls on the same payload and public key
\* return envelopes that differ in iv and in encryptedAESKey; for the empty
\* payload both ciphertexts are the empty string.
C3_FreshIvAndKey ==
  \A i \in Sealed, j \in Sealed :
    (/\ i < j
     /\ calls[i].payload = calls[j].payload
     /\ calls[i].serverPublicKey = calls[j].serverPublicKey)
      => /\ calls[i].ret.value.iv # calls[j].ret.value.iv
         /\ calls[i].ret.value.encryptedAESKey # calls[j].ret.value.encryptedAESKey
         /\ (calls[i].payload = <<>>
               => /\ calls[i].ret.value.ciphertext = EmptyText
                  /\ calls[j].ret.value.ciphertext = EmptyText)

C3_Witness ==
  \E i \in Sealed, j \in Sealed :
    /\ i < j
    /\ calls[i].payload = <<>>
    /\ calls[j].payload = <<>>
    /\ calls[i].serverPublicKey = calls[j].serverPublicKey
    /\ calls[i].ret.value.iv # calls[j].ret.value.iv

\* C4: an envelope sealed for one key pair is rejected under the private key
\* of another pair, and so is the wrapped AES key on its own: neither
\* decryptRequest nor decryptWithPrivateKey returns a value.
C4_WrongKeyRejected ==
  \A i \in Opened, j \in Sealed :
    OpensForeign(i, j)
      => /\ ~opened[i].ret.ok
         /\ opened[i].ret.value = <<>>
         /\ ~opened[i].aesKey.ok
         /\ opened[i].aesKey.value = <<>>

C4_Witness ==
  \E i \in Opened, j \in Sealed : OpensForeign(i, j) /\ ~opened[i].ret.ok

\* C9: decryptRequest unwraps the AES key first, and when the unwrap fails it
\* throws that failure without entering AES256GCM.decrypt.
C9_UnwrapBeforeDecrypt ==
  \A i \in Opened :
    LET unwrap == privateDecrypt(opened[i].serverPrivateKey,
                                 fromBase64(opened[i].encryptedPayload.encryptedAESKey))
    IN /\ opened[i].invoked[1] = "decryptWithPrivateKey"
       /\ ~unwrap.ok => /\ opened[i].invoked = <<"decryptWithPrivateKey">>
                        /\ opened[i].ret = unwrap

C9_Witness ==
  \E i \in Opened :
    /\ ~opened[i].aesKey.ok
    /\ opened[i].invoked = <<"decryptWithPrivateKey">>
    /\ ~opened[i].ret.ok

\* The fields of an envelope, and the bytes its fields decode to.
EnvelopeFields == {"ciphertext", "encryptedAESKey", "iv", "authTag"}
DecodedEnvelope(e) == [f \in EnvelopeFields |-> fromBase64(e[f])]
\* opened[i] is call j's envelope with exactly one field changed, under the
\* matching private key.
OpensAltered(i, j) ==
  /\ opened[i].serverPrivateKey[2] = calls[j].serverPublicKey[2]
  /\ Cardinality({f \in EnvelopeFields :
                    opened[i].encryptedPayload[f] # calls[j].ret.value[f]}) = 1

C10_NoPartialRelease ==
  \A i \in Opened :
    (opened[i].invoked = <<"decryptWithPrivateKey", "AES256GCM.decrypt">>)
      => LET e == opened[i].encryptedPayload
             verifies == TagVerifies(fromBase64(opened[i].aesKey.value), fromBase64(e.iv),
                                     fromBase64(e.ciphertext), fromBase64(e.authTag))
         IN /\ opened[i].ret.ok => verifies
            /\ ~verifies => ~opened[i].ret.ok /\ opened[i].ret.value = <<>>

C10_Witness ==
  \E i \in Opened :
    /\ opened[i].invoked = <<"decryptWithPrivateKey", "AES256GCM.decrypt">>
    /\ opened[i].produced # <<>>
    /\ ~opened[i].ret.ok
    /\ opened[i].ret.value = <<>>

\* C5: a search for a value that a successful ingest stored before it
\* returns that row's plaintext fields; a search for a value no ingest has
\* stored returns NotFound as an ordinary result.
C5_IngestThenSearch ==
  \A i \in 1..Len(searched) :
    LET known == {k \in 1..searched[i].rows : ledger[k].nationalId = searched[i].query}
    IN IF known = {}
         THEN searched[i].ret = Return(NotFound)
         ELSE \E k \in known :
                searched[i].ret = Return([found |-> TRUE,
                                          nationalId |-> ledger[k].nationalId,
                                          name |-> ledger[k].name])

C5_Witness ==
  \E i \in 1..Len(searched) :
    /\ searched[i].ret.ok
    /\ searched[i].ret.value.found
    /\ searched[i].ret.value.name = <<97>>
    /\ \E k \in 1..Len(ledger) : ledger[k].nationalId # searched[i].query

\* The envelope does not open under the service's private key: the unwrap
\* fails or the tag does not verify.
OpenFails(e) ==
  LET aesKey == privateDecrypt(RecipientKeyPair.privateKey, fromBase64(e.encryptedAESKey))
  IN \/ ~aesKey.ok
     \/ ~TagVerifies(aesKey.value, fromBase64(e.iv), fromBase64(e.ciphertext),
                     fromBase64(e.authTag))

\* C6: an ingest whose envelope fails to open is rejected and leaves the
\* stored rows exactly as they were.
C6_FailedOpenStoresNothing ==
  [][(ingested' # <<>> /\ OpenFails(ingested'[1].envelope))
       => /\ ~ingested'[1].ret.ok
          /\ ingested'[1].row = <<>>
          /\ store' = store
          /\ ledger' = ledger]_vars

C6_Witness ==
  /\ ingested # <<>>
  /\ OpenFails(ingested[1].envelope)
  /\ ~ingested[1].ret.ok
  /\ store # <<>>

\* Every ciphertext column written so far, by a stored row or by the row the
\* latest ingest assembled, with the row and field it belongs to.
WrittenRows ==
  {store[k] : k \in 1..Len(store)}
    \cup {ingested[i].row[1] : i \in {j \in 1..Len(ingested) : ingested[j].row # <<>>}}
WrittenCells ==
  {[row |-> r, field |-> "national_id", column |-> r.encrypted_national_id] : r \in WrittenRows}
    \cup {[row |-> r, field |-> "name", column |-> r.encrypted_name] : r \in WrittenRows}

\* C8: two encryptions of the same field value under the storage key give
\* two different ciphertext column values, and two rows for the same
\* searchable value carry the same index token.
C8_ColumnsDifferTokensAgree ==
  /\ \A a \in WrittenCells, b \in WrittenCells :
       (a # b /\ readColumn(a.column, StorageKey) = readColumn(b.column, StorageKey))
         => a.column # b.column
  /\ \A r1 \in WrittenRows, r2 \in WrittenRows :
       (readColumn(r1.encrypted_national_id, StorageKey)
          = readColumn(r2.encrypted_national_id, StorageKey))
         => r1.national_id_index = r2.national_id_index

C8_Witness ==
  \E r1 \in WrittenRows, r2 \in WrittenRows :
    /\ r1 # r2
    /\ readColumn(r1.encrypted_national_id, StorageKey).ok
    /\ readColumn(r1.encrypted_national_id, StorageKey)
         = readColumn(r2.encrypted_national_id, StorageKey)
    /\ r1.encrypted_national_id # r2.encrypted_national_id
    /\ r1.national_id_index = r2.national_id_index

\* opened[i] is call j's envelope with the last byte of its non-empty
\* ciphertext removed and nothing else changed, under the matching private key.
OpensTruncated(i, j) ==
  /\ opened[i].serverPrivateKey[2] = calls[j].serverPublicKey[2]
  /\ fromBase64(calls[j].ret.value.ciphertext) # <<>>
  /\ opened[i].encryptedPayload =
       [calls[j].ret.value EXCEPT
          !.ciphertext = toBase64(AllButLast(fromBase64(calls[j].ret.value.ciphertext)))]

C12_FreshKeyIffOmitted ==
  \A i \in 1..Len(encrypted) :
    LET e == encrypted[i]
    IN /\ (e.draws > 1) <=> ~e.key.given
       /\ (e.key.given /\ e.ret.ok)
            => /\ e.ret.value.key = e.key.text
               /\ e.ret.value.authTag =
                    toBase64(GcmTag(fromBase64(e.key.text), fromBase64(e.ret.value.iv),
                                    fromBase64(e.ret.value.ciphertext)))

\* C13: every failing decryptWithPrivateKey call throws one and the same
\* error, whether the private key is another pair's, a wrapped byte was
\* changed or the wrapped bytes have another length than the modulus.
C13_OneUnwrapError ==
  \A a \in 1..Len(unwrapped), b \in 1..Len(unwrapped) :
    (~unwrapped[a].ret.ok /\ ~unwrapped[b].ret.ok) => unwrapped[a].ret = unwrapped[b].ret

\* The error decipher.final() throws when the tag does not verify.
AuthenticationFailure == "Unsupported state or unable to authenticate data"
\* The text is not valid base64; the input has such a field.
NotBase64(text) == text.junk = 1
Malformed(input) == \E f \in InputFields : NotBase64(input[f])
\* decrypted[i] is the unchanged result of encrypt call j.
DecryptsOwn(i, j) == decrypted[i].input = AsReturned(j)

\* C14: AES256GCM.decrypt fails with the authentication error when its
\* validly encoded input has a tag that does not verify, and fails with
\* another error, never the authentication error and never a plaintext,
\* when a field of its input is not valid base64.
C14_DistinctFailureKinds ==
  \A i \in 1..Len(decrypted) :
    LET input == decrypted[i].input
        verifies == TagVerifies(fromBase64(input.key), fromBase64(input.iv),
                                fromBase64(input.ciphertext), fromBase64(input.authTag))
    IN /\ (~Malformed(input) /\ ~verifies) => decrypted[i].ret = Throw(AuthenticationFailure)
       /\ Malformed(input)
            => ~decrypted[i].ret.ok /\ decrypted[i].ret.error # AuthenticationFailure

\* C15 as stated: AES256GCM.decrypt of what AES256GCM.encrypt(p) returned,
\* under a generated or a supplied key, returns exactly p for every string p.
C15_AesRoundTripEveryString ==
  \A i \in 1..Len(decrypted), j \in 1..Len(encrypted) :
    (encrypted[j].ret.ok /\ DecryptsOwn(i, j))
      => decrypted[i].ret = Return(encrypted[j].plaintext)

\* C15 amended: AES256GCM.decrypt of what AES256GCM.encrypt(p) returned,
\* under a generated or a supplied 256-bit key, returns exactly p for every
\* string p that has no lone surrogate.
C15_AesRoundTripWellFormed ==
  \A i \in 1..Len(decrypted), j \in 1..Len(encrypted) :
    (encrypted[j].ret.ok /\ DecryptsOwn(i, j) /\ WellFormed(encrypted[j].plaintext))
      => decrypted[i].ret = Return(encrypted[j].plaintext)

C15_Witness ==
  \E i \in 1..Len(decrypted), j \in 1..Len(encrypted) :
    /\ encrypted[j].ret.ok
    /\ DecryptsOwn(i, j)
    /\ encrypted[j].key = KeyArg(SuppliedKey)
    /\ encrypted[j].plaintext = Emoji
    /\ decrypted[i].ret = Return(Emoji)

\* The text is the base64 encoding Buffer.toString("base64") writes.
Canonical(text) == text = toBase64(fromBase64(text))
\* unwrapped[i] is what wrap call j returned, under the private key of the
\* pair whose public key wrapped it.
UnwrapsOwn(i, j) ==
  /\ wrapped[j].ret.ok
  /\ unwrapped[i].encryptedData = wrapped[j].ret.value
  /\ unwrapped[i].privateKeyPEM[2] = wrapped[j].publicKeyPEM[2]

\* C16 as stated: decryptWithPrivateKey(encryptWithPublicKey(d, K.publicKey),
\* K.privateKey) returns d for every data string d encryptWithPublicKey
\* accepts.
C16_WrapRoundTripEveryString ==
  \A i \in 1..Len(unwrapped), j \in 1..Len(wrapped) :
    UnwrapsOwn(i, j) => unwrapped[i].ret = Return(wrapped[j].data)

\* C16 amended: the wrap round trip returns d when d is the canonical base64
\* encoding of the bytes it decodes to, and the canonical encoding of those
\* bytes for every other accepted d.
C16_WrapRoundTripCanonical ==
  \A i \in 1..Len(unwrapped), j \in 1..Len(wrapped) :
    UnwrapsOwn(i, j)
      => /\ unwrapped[i].ret = Return(toBase64(fromBase64(wrapped[j].data)))
         /\ Canonical(wrapped[j].data) => unwrapped[i].ret = Return(wrapped[j].data)

C16_Witness ==
  \E i \in 1..Len(unwrapped), j \in 1..Len(wrapped) :
    /\ UnwrapsOwn(i, j)
    /\ wrapped[j].data = SuppliedKey
    /\ unwrapped[i].ret = Return(SuppliedKey)

\* C17: every encryptRequest call encrypts its payload under a key
\* generateKey made for that call, and no two calls use the same key.
C17_NoKeyReuse ==
  \A i \in Sealed, j \in Sealed :
    LET e == calls[i].ret.value
    IN /\ Len(fromBase64(calls[i].aesKey)) = KEY_LENGTH
       /\ e.authTag = toBase64(GcmTag(fromBase64(calls[i].aesKey), fromBase64(e.iv),
                                      fromBase64(e.ciphertext)))
       /\ i # j => calls[i].aesKey # calls[j].aesKey

C17_Witness ==
  \E i \in Sealed, j \in Sealed :
    /\ i < j
    /\ calls[i].payload = calls[j].payload
    /\ calls[i].serverPublicKey = calls[j].serverPublicKey
    /\ calls[i].aesKey # calls[j].aesKey

\* C18: the value encryptRequest returns has exactly the fields ciphertext,
\* encryptedAESKey, iv and authTag; the AES key is in none of them as it is,
\* and encryptedAESKey is the key wrapped for the server's key pair.
C18_KeyOnlyWrapped ==
  \A j \in Sealed :
    LET e == calls[j].ret.value
        serverPrivateKey == generateKeyPair(calls[j].serverPublicKey[2]).privateKey
    IN /\ DOMAIN e = EnvelopeFields
       /\ e.ciphertext # calls[j].aesKey
       /\ e.iv # calls[j].aesKey
       /\ e.authTag = toBase64(GcmTag(fromBase64(calls[j].aesKey), fromBase64(e.iv),
                                      fromBase64(e.ciphertext)))
       /\ fromBase64(e.encryptedAESKey).len = ModulusBytes
       /\ decryptWithPrivateKey(e.encryptedAESKey, serverPrivateKey) = Return(calls[j].aesKey)

C18_Witness ==
  \E j \in Sealed :
    /\ calls[j].payload = <<97, 98>>
    /\ DOMAIN calls[j].ret.value = EnvelopeFields
    /\ fromBase64(calls[j].ret.value.encryptedAESKey).src[3] = fromBase64(calls[j].aesKey)

\* The column does not authenticate under the storage key.
ColumnFails(column) ==
  ~TagVerifies(fromBase64(StorageKey), fromBase64(column.iv), fromBase64(column.ciphertext),
               fromBase64(column.authTag))

\* C19: when the table holds a row for the query's token and one of its
\* ciphertext columns does not authenticate under the storage key, search
\* reports DataIntegrityFailure: neither NotFound nor a record.
C19_IntegrityFailureSurfaced ==
  \A i \in 1..Len(searched) :
    LET table == searched[i].table
        token == derive(IndexSecret, searched[i].query)
    IN (\E k \in 1..Len(table) :
          /\ table[k].national_id_index = token
          /\ \E c \in ColumnNames : ColumnFails(table[k][c]))
         => searched[i].ret = Throw("DataIntegrityFailure")

C19_Witness ==
  \E i \in 1..Len(searched) :
    /\ searched[i].ret = Throw("DataIntegrityFailure")
    /\ \E k \in 1..Len(searched[i].table) :
         /\ ColumnFails(searched[i].table[k].encrypted_name)
         /\ ~ColumnFails(searched[i].table[k].encrypted_national_id)

C21_ReplayRejected ==
  \A later \in Opened, earlier \in Opened :
    (/\ later < earlier
     /\ opened[earlier].ret.ok
     /\ opened[later].encryptedPayload = opened[earlier].encryptedPayload
     /\ opened[later].serverPrivateKey = opened[earlier].serverPrivateKey)
      => ~opened[later].ret.ok

\* C23: whatever the length of the payload, encryptRequest succeeds and
\* hands the RSA wrap its 32-byte AES key and nothing else, and the envelope
\* opens to the payload under the matching private key.
C23_PayloadSizeIndependent ==
  /\ \A j \in 1..Len(calls) :
       /\ calls[j].ret.ok
       /\ Len(fromBase64(calls[j].aesKey)) = KEY_LENGTH
       /\ fromBase64(calls[j].ret.value.encryptedAESKey).src[3] = fromBase64(calls[j].aesKey)
       /\ Len(fromBase64(calls[j].ret.value.ciphertext)) = Len(utf8Encode(calls[j].payload))
  /\ \A i \in Opened, j \in Sealed :
       OpensOwn(i, j) => opened[i].ret = Return(calls[j].payload)

C23_Witness ==
  \E i \in Opened, j \in Sealed :
    /\ OpensOwn(i, j)
    /\ Len(calls[j].payload) > ModulusBytes
    /\ opened[i].ret = Return(calls[j].payload)

\* C24: over a sequence of AES256GCM.encrypt calls that supply the same key,
\* every call takes one new value from randomBytes and returns it as its IV,
\* and no two of the calls return the same IV.
C24_NonceSingleUse ==
  \A i \in 1..Len(encrypted) :
    (encrypted[i].key.given /\ encrypted[i].ret.ok) =>
      /\ encrypted[i].draws = 1
      /\ encrypted[i].ret.value.iv = toBase64(randomBytes(IV_LENGTH, encrypted[i].before + 1))
      /\ \A j \in 1..Len(encrypted) :
           (/\ j # i
            /\ encrypted[j].ret.ok
            /\ encrypted[j].ret.value.key = encrypted[i].ret.value.key)
             => encrypted[j].ret.value.iv # encrypted[i].ret.value.iv

C24_Witness ==
  \E i, j \in 1..Len(encrypted) :
    /\ i < j
    /\ encrypted[i].key.given /\ encrypted[j].key.given
    /\ encrypted[i].key = encrypted[j].key
    /\ encrypted[i].plaintext = encrypted[j].plaintext
    /\ encrypted[i].ret.ok /\ encrypted[j].ret.ok
    /\ encrypted[i].ret.value.iv # encrypted[j].ret.value.iv

\* C25: AES256GCM.decrypt fails on every input whose authTag does not decode
\* to exactly 16 bytes, a shortened prefix of the genuine tag included.
C25_TagLengthEnforced ==
  \A i \in 1..Len(decrypted) :
    fromBase64(decrypted[i].input.authTag).len # AUTH_TAG_LENGTH => ~decrypted[i].ret.ok

\* C26: when the encryptedAESKey of an envelope unwraps under the private key
\* to a value that is not exactly 32 bytes long, decryptRequest throws and
\* returns no plaintext.
C26_WrongKeyLengthRejected ==
  \A i \in Opened :
    (opened[i].aesKey.ok /\ Len(fromBase64(opened[i].aesKey.value)) # KEY_LENGTH)
      => /\ ~opened[i].ret.ok
         /\ opened[i].ret.value = <<>>
         /\ opened[i].produced = <<>>

C26_Witness ==
  \E i \in Opened :
    /\ opened[i].aesKey.ok
    /\ Len(fromBase64(opened[i].aesKey.value)) = KEY_LENGTH \div 2
    /\ fromBase64(opened[i].encryptedPayload.ciphertext) # <<>>
    /\ opened[i].invoked = <<"decryptWithPrivateKey", "AES256GCM.decrypt">>
    /\ opened[i].ret = Throw("Invalid key length")

\* C27: every AES256GCM.encrypt call made without a key succeeds and returns
\* a key of 32 bytes, an iv of 12 bytes and an authTag of 16 bytes, whatever
\* the plaintext, the empty string included.
C27_FixedOutputSizes ==
  \A i \in 1..Len(encrypted) :
    ~encrypted[i].key.given =>
      /\ encrypted[i].ret.ok
      /\ Len(fromBase64(encrypted[i].ret.value.key)) = KEY_LENGTH
      /\ Len(fromBase64(encrypted[i].ret.value.iv)) = IV_LENGTH
      /\ fromBase64(encrypted[i].ret.value.authTag).len = AUTH_TAG_LENGTH

C27_Witness ==
  \E i \in 1..Len(encrypted) :
    /\ ~encrypted[i].key.given
    /\ encrypted[i].plaintext = <<>>
    /\ encrypted[i].ret.ok
    /\ fromBase64(encrypted[i].ret.value.ciphertext) = <<>>
    /\ Len(fromBase64(encrypted[i].ret.value.key)) = KEY_LENGTH
    /\ Len(fromBase64(encrypted[i].ret.value.iv)) = IV_LENGTH
    /\ fromBase64(encrypted[i].ret.value.authTag).len = AUTH_TAG_LENGTH

\* C29: a search leaves the stored rows as they are; a step that changes the
\* rows is a successful ingest, and it appends exactly one row, the one whose
\* id it returns, after the rows stored before, each of which keeps its id,
\* its ciphertext columns and its index token; a failed ingest stores nothing.
C29_StoredRecordsImmutable ==
  [][/\ searched' # searched => store' = store
     /\ (ingested' # ingested /\ ~ingested'[1].ret.ok) => store' = store
     /\ (ingested' # ingested /\ ingested'[1].ret.ok) => Len(store') = Len(store) + 1
     /\ store' # store =>
          /\ ingested'[1].ret.ok
          /\ Len(store') = Len(store) + 1
          /\ SubSeq(store', 1, Len(store)) = store
          /\ store'[Len(store')] = ingested'[1].row[1]
          /\ store'[Len(store')].id = ingested'[1].ret.value]_vars

C29_Witness ==
  /\ Len(store) = 2
  /\ ingested # <<>>
  /\ ingested[1].ret = Return(2)
  /\ searched # <<>>
  /\ searched[1].table = <<store[1]>>
  /\ searched[1].ret.ok
  /\ searched[1].ret.value.found

\* C22: under any interleaving of the statements of concurrent encryptRequest
\* and decryptRequest invocations, every invocation that has returned has
\* returned what it returns when run alone: an encryptRequest invocation the
\* envelope built from its own payload and the key, IV and seed it drew
\* itself (the very envelope of a run alone when its draws were consecutive),
\* a decryptRequest invocation the result of decryptRequest on its arguments;
\* and no two invocations hold the same key or the same IV.
C22_Reentrant ==
  /\ \A k \in 1..Len(sealing) :
       sealing[k].pc = "done" =>
         LET f == sealing[k]
             keyBuffer == randomBytes(KEY_LENGTH, f.draws[1])
             ivBuffer == randomBytes(IV_LENGTH, f.draws[2])
             privateKey == generateKeyPair(f.serverPublicKey[2]).privateKey
             alone == encryptRequest(f.payload, f.serverPublicKey, 0).ret
         IN /\ f.ret.ok
            /\ Len(f.draws) = 3
            /\ f.ret.value.iv = toBase64(ivBuffer)
            /\ decryptWithPrivateKey(f.ret.value.encryptedAESKey, privateKey)
                 = Return(toBase64(keyBuffer))
            /\ f.ret.value.ciphertext
                 = toBase64(GcmEncrypt(keyBuffer, ivBuffer, utf8Encode(f.payload)))
            /\ f.ret.value.authTag
                 = toBase64(GcmTag(keyBuffer, ivBuffer, fromBase64(f.ret.value.ciphertext)))
            /\ decryptRequest(f.ret.value, privateKey).ret
                 = decryptRequest(alone.value, privateKey).ret
            /\ (f.draws[2] = f.draws[1] + 1 /\ f.draws[3] = f.draws[2] + 1)
                 => f.ret = encryptRequest(f.payload, f.serverPublicKey, f.draws[1] - 1).ret
  /\ \A k, l \in 1..Len(sealing) :
       k # l =>
         /\ sealing[k].aesKey # EmptyText => sealing[k].aesKey # sealing[l].aesKey
         /\ sealing[k].iv # EmptyText => sealing[k].iv # sealing[l].iv
  /\ \A k \in 1..Len(opening) :
       opening[k].pc = "done" =>
         opening[k].ret
           = decryptRequest(opening[k].encryptedPayload, opening[k].serverPrivateKey).ret

C22_Witness ==
  /\ Len(sealing) = 2
  /\ sealing[1].pc = "done"
  /\ sealing[2].pc = "wrap"
  /\ sealing[1].draws[1] < sealing[2].draws[1]
  /\ sealing[2].draws[1] < sealing[1].draws[2]
  /\ \E k \in 1..Len(opening) :
       /\ opening[k].pc = "done"
       /\ opening[k].encryptedPayload = sealing[1].ret.value
       /\ opening[k].ret = Return(sealing[1].payload)

\* A row with every ciphertext column readable under the storage key and the
\* index token of the value its first column holds.
Complete(row) ==
  /\ readColumn(row.encrypted_national_id, StorageKey).ok
  /\ readColumn(row.encrypted_name, StorageKey).ok
  /\ row.national_id_index
       = derive(IndexSecret, readColumn(row.encrypted_national_id, StorageKey).value)
\* The ingest invocations that returned an id.
Stored == {k \in 1..Len(ingesting) : ingesting[k].pc = "done" /\ ingesting[k].ret.ok}

\* C28: under any interleaving of concurrent ingest and search requests,
\* the record a search finds is complete and is the record of its query, and
\* the search returns the record's fields or NotFound; the table holds the
\* complete records of the ingests that returned an id and nothing of an
\* ingest that is under way or has failed.
C28_NoPartialRecordVisible ==
  /\ \A r \in 1..Len(store) : Complete(store[r])
  /\ Len(store) = Cardinality(Stored)
  /\ \A k \in Stored :
       LET row == store[ingesting[k].ret.value]
       IN /\ row.encrypted_national_id = ingesting[k].encrypted_national_id
          /\ row.encrypted_name = ingesting[k].encrypted_name
          /\ row.national_id_index = ingesting[k].national_id_index
  /\ \A s \in 1..Len(searching) :
       /\ searching[s].pc # "lookup" =>
            \/ searching[s].record = <<>>
            \/ /\ Complete(searching[s].record[1])
               /\ searching[s].record[1].national_id_index
                    = derive(IndexSecret, searching[s].query)
       /\ searching[s].pc = "done" =>
            IF searching[s].record = <<>>
              THEN searching[s].ret = Return(NotFound)
              ELSE /\ searching[s].ret.ok
                   /\ searching[s].ret.value.found
                   /\ searching[s].ret.value.nationalId = searching[s].query

C28_Witness ==
  \E k \in 1..Len(ingesting), s, t \in 1..Len(searching) :
    /\ ingesting[k].pc = "insert"
    /\ searching[s].pc = "done"
    /\ derive(IndexSecret, searching[s].query) = ingesting[k].national_id_index
    /\ searching[s].ret = Return(NotFound)
    /\ searching[t].pc = "done"
    /\ searching[t].ret.ok
    /\ searching[t].ret.value.found
    /\ searching[t].rows = 1

====
